---- MODULE Spec2Model ----
(***************************************************************************)
(* The template-evolution pipeline of psychLLM: the three stage commands   *)
(* fill_latents.py (Instantiate), compute_latent_logits.py (Evaluate and   *)
(* Aggregate), gen_blank_latent.py (Synthesize), the seeding step of       *)
(* initialize_directories.py and the driver evolooption.py.                *)
(*                                                                         *)
(* The file system is the state: data/blank_latents (the template          *)
(* registry), the names listed in data/users, and the records of           *)
(* data/users/NEO that load_user_data / save_user_data read and write.     *)
(* A stage command is a process that walks the listed users one loop       *)
(* iteration per step; the language-model service is an input of each      *)
(* step.                                                                   *)
(*                                                                         *)
(* Representation.  A template id 'blank_latent_ddd' is its digit string   *)
(* <<d,d,d>>.  A text is a number, 0 being the empty string.  An optional  *)
(* JSON value is a sequence of length 0 or 1.  A JSON object with open     *)
(* keys is a function whose DOMAIN is its key set.  Log-probabilities are  *)
(* integers in units of ln 2 (the probability of level l is 2^l), and a    *)
(* divergence is kept in thousandths of a bit.                             *)
(***************************************************************************)
EXTENDS Integers, Sequences, FiniteSets, TLC

(* ------------------------------ bounds -------------------------------- *)
NumUsers == 2          \* individuals user_1 .. user_NumUsers
NumQuestions == 1      \* questions of the one question bank
MaxTokens == 2         \* longest ground-truth answer, in tokens
MaxStream == 2         \* longest echoed prompt stream of an evaluation
NumTexts == 2          \* distinct non-empty texts the service can produce
MaxVersion == 2        \* the registry is not grown past this number
MaxCommands == 2       \* commands started from the shell in one behaviour
MaxList == 11          \* longest list of divergences of one user
MaxDiv == 2            \* largest divergence of such a list
MaxSeq == 3            \* longest sequence of log-probabilities scored on its own
CallQuestions == 2     \* questions of a bank evaluated on its own
MaxFiles == 2          \* transcript files of input/transcripts

(* -------------------------- program constants ------------------------- *)
num_iterations == 3    \* evolooption.py:79
top_k == 5             \* gen_blank_latent.py:265
bottom_k == 5          \* gen_blank_latent.py:266
KeyWidth == 3          \* evolooption.py:35, zfill(3)

Users == 1..NumUsers
QuestionIds == 1..NumQuestions
Texts == 0..NumTexts
LogProbLevels == {-1, 0}
PromptTypes == {"psychologist", "baseline"}

(* ------------------------------ helpers ------------------------------- *)
Put(m, k, v) == [x \in (DOMAIN m) \cup {k} |-> IF x = k THEN v ELSE m[x]]

EmptyMap == [x \in {} |-> 0]

SeqsOver(S, n) == UNION {[1..k -> S] : k \in 0..n}

RECURSIVE Perms(_)
Perms(S) ==
    IF S = {} THEN {<<>>}
    ELSE UNION {{<<x>> \o p : p \in Perms(S \ {x})} : x \in S}

RECURSIVE SumSeq(_)
SumSeq(s) == IF s = <<>> THEN 0 ELSE Head(s) + SumSeq(Tail(s))

(* int(digits) *)
RECURSIVE ParseInt(_)
ParseInt(ds) ==
    IF ds = <<>> THEN 0
    ELSE 10 * ParseInt(SubSeq(ds, 1, Len(ds) - 1)) + ds[Len(ds)]

(* str(n) for n >= 0 *)
RECURSIVE Str(_)
Str(n) == IF n < 10 THEN <<n>> ELSE Str(n \div 10) \o <<n % 10>>

(* s.zfill(w) *)
RECURSIVE ZFill(_, _)
ZFill(ds, w) == IF Len(ds) >= w THEN ds ELSE ZFill(<<0>> \o ds, w)

(* the digit strings a command line or a seed can name in this model *)
KeyArgs == {ZFill(Str(n), KeyWidth) : n \in 0..MaxVersion}

(* --------------------------- the stored data -------------------------- *)
VARIABLES
    blank_latents,   \* data/blank_latents: digit string -> [full_text]
    usersDir,        \* the ids u with a file user_u.json listed in data/users
    neoStore,        \* data/users/NEO: id -> the record load_user_data returns
    proc,            \* the stage command that runs, or the last one that ran
    driver,          \* evolooption.py: its place in the loop
    commands         \* the number of commands started from the shell

vars == <<blank_latents, usersDir, neoStore, proc, driver, commands>>

SeedKey == ZFill(<<0>>, KeyWidth)

(* A ground-truth answer of n tokens as get_answers.py stores it: the      *)
(* answer text with its tokens and one log-probability per token.          *)
Transcript(n) ==
    [response |-> 1,
     tokens |-> [i \in 1..n |-> i],
     token_logprobs_transcript |-> [i \in 1..n |-> -1]]

(* the registry with the templates 000 .. n *)
RegistryUpTo(n) ==
    [k \in {ZFill(Str(j), KeyWidth) : j \in 0..n} |-> [full_text |-> 1]]

(* An instantiation in the layout compute_latent_logits.py and             *)
(* gen_blank_latent.py read: the filled text under 'full_text'.            *)
(* fill_latents.py stores the text under wave_1.full_response and no       *)
(* 'full_text' (fill_store below), so records of this layout are given in  *)
(* the initial state.                                                      *)
FullTextEntry(t) == [full_text |-> t, wave_1 |-> <<>>]

FilledUpTo(n) ==
    [k \in {ZFill(Str(j), KeyWidth) : j \in 0..n} |-> FullTextEntry(1)]

BankWith(t) ==
    [b \in {1} |->
        [instructions |-> 1,
         questions |-> [q \in QuestionIds |->
                          [question |-> q, transcript |-> t, latents |-> EmptyMap]]]]

(* The records a user can start with: a questionnaire record that was      *)
(* never instantiated, with or without the 'questions' block               *)
(* build_prompt reads, and records instantiated for the templates          *)
(* 000 .. n, whose questions have no answer yet, an answer without tokens  *)
(* or an answer of MaxTokens tokens.                                       *)
InitRecords(have) ==
    {[questions |-> q, filled_latent |-> EmptyMap,
      question_banks |-> BankWith(<<Transcript(MaxTokens)>>)] : q \in BOOLEAN}
    \cup
    {[questions |-> TRUE, filled_latent |-> FilledUpTo(n),
      question_banks |-> BankWith(t)] :
        n \in have,
        t \in {<<>>, <<Transcript(0)>>, <<Transcript(MaxTokens)>>}}

IdleProc ==
    [stage |-> "none", caller |-> "cli", argv |-> <<>>, status |-> "exited",
     exit |-> 0, fault |-> FALSE, todo |-> <<>>, visited |-> <<>>,
     calls |-> [u \in Users |-> 0], gen_calls |-> 0, log |-> {},
     max_latent_key |-> <<>>, users_data |-> <<>>, prompt |-> <<>>,
     written |-> <<>>]

IdleDriver ==
    [pc |-> "off", iteration |-> 0, key |-> <<>>, waiting |-> FALSE, exit |-> 0]

Init ==
    /\ \E n \in -1..(MaxVersion - 1) :
          /\ blank_latents = RegistryUpTo(n)
          /\ \E D \in SUBSET Users : neoStore \in [D -> InitRecords(0..n)]
    /\ usersDir = Users
    /\ proc = IdleProc
    /\ driver = IdleDriver
    /\ commands = 0

(* ------------------------- the language model ------------------------- *)
(* What one chat-completion call can do: raise, or answer with a stripped  *)
(* text and, optionally, the log-probabilities of the generated tokens.    *)
SomeLogprobs == [tokens |-> <<1>>, token_logprobs |-> <<0>>]

ChatOutcomes(contents) ==
    {[raises |-> TRUE, content |-> 0, logprobs |-> <<>>]} \cup
    {[raises |-> FALSE, content |-> t, logprobs |-> lp] :
        t \in contents, lp \in {<<>>, <<SomeLogprobs>>}}

(* the filled texts of the model: the empty one and one other *)
FilledTexts == {0, 1}

(* ------------------------- process bookkeeping ------------------------ *)
Log(level, what, u, q) == <<level, what, u, q>>

StartProc(stage, caller, args) ==
    [IdleProc EXCEPT !.stage = stage, !.caller = caller, !.argv = args,
                     !.status = "running"]

(* sys.exit(code), a return from main (code 0), or an uncaught exception   *)
(* (code 1, fault) *)
Exit(p, code, fault, logs) ==
    [p EXCEPT !.status = "exited", !.exit = code, !.fault = fault,
              !.log = @ \cup logs]

(* `continue`: on to the next listed user *)
NextUser(p, logs) ==
    [p EXCEPT !.todo = Tail(@), !.visited = Append(@, Head(p.todo)),
              !.log = @ \cup logs]

(* ------------------- fill_latents.py (Instantiate) -------------------- *)
(* a fill_latent that calls the service a second time when the first     *)
(* call raises *)
fill_latent_retrying(resp, user_id) ==
    IF resp.raises
    THEN [ret |-> <<>>, calls |-> 2,
          log |-> {Log("error", "fill_latent_failed", user_id, 0)}]
    ELSE [ret |-> <<[full_text |-> resp.content,
                     tokens |-> <<>>, token_logprobs_transcript |-> <<>>]>>,
          calls |-> 1, log |-> {}]

(* fill_latent: one chat-completion call inside try/except.  ret is the    *)
(* returned dict ({} as <<>>), calls the number of calls it issued.        *)
fill_latent(resp, user_id) ==
    IF resp.raises
    THEN [ret |-> <<>>, calls |-> 1,
          log |-> {Log("error", "fill_latent_failed", user_id, 0)}]
    ELSE [ret |-> <<[full_text |-> resp.content,
                     tokens |-> IF resp.logprobs # <<>>
                                THEN resp.logprobs[1].tokens ELSE <<>>,
                     token_logprobs_transcript |->
                                IF resp.logprobs # <<>>
                                THEN resp.logprobs[1].token_logprobs ELSE <<>>]>>,
          calls |-> 1,
          log |-> IF resp.logprobs # <<>> THEN {}
                  ELSE {Log("warning", "no_logprobs", user_id, 0)}]

(* build_prompt: "exit" for an unknown prompt type, "KeyError" when the    *)
(* record has no 'questions' block, else "ok" (the prompt text).           *)
build_prompt(prompt_type, user_data) ==
    IF prompt_type \notin {"rubric", "psychologist"} THEN "exit"
    ELSE IF ~user_data.questions THEN "KeyError"
    ELSE "ok"

(* a start of fill_latents.py that does not look for the template file *)
fill_main_start_unchecked(caller, args, apiOk, order) ==
    LET p == StartProc("fill", caller, args) IN
    IF Len(args) # 2
    THEN Exit(p, 1, FALSE, {Log("error", "usage", 0, 0)})
    ELSE IF ~apiOk
    THEN Exit(p, 1, FALSE, {Log("error", "api_unavailable", 0, 0)})
    ELSE IF DOMAIN neoStore = {}
    THEN Exit(p, 1, FALSE, {Log("error", "no_user_files", 0, 0)})
    ELSE [p EXCEPT !.todo = order]

(* main, lines 106-181: everything before the loop over the users *)
fill_main_start(caller, args, apiOk, order) ==
    LET p == StartProc("fill", caller, args) IN
    IF Len(args) # 2
    THEN Exit(p, 1, FALSE, {Log("error", "usage", 0, 0)})
    ELSE IF ~apiOk
    THEN Exit(p, 1, FALSE, {Log("error", "api_unavailable", 0, 0)})
    ELSE IF args[1] \notin DOMAIN blank_latents
    THEN Exit(p, 1, FALSE, {Log("error", "blank_latent_not_found", 0, 0)})
    ELSE IF blank_latents[args[1]].full_text = 0
    THEN Exit(p, 1, FALSE, {Log("error", "blank_latent_empty", 0, 0)})
    ELSE IF DOMAIN neoStore = {}
    THEN Exit(p, 1, FALSE, {Log("error", "no_user_files", 0, 0)})
    ELSE [p EXCEPT !.todo = order]

(* a skip test that never finds the entry *)
fill_never_exists(user_data, blank_latent_id) == FALSE

(* the skip test of lines 196-200 *)
fill_already_exists(user_data, blank_latent_id) ==
    blank_latent_id \in DOMAIN user_data.filled_latent

(* lines 220-231: the entry main stores *)
fill_store(user_data, blank_latent_id, filled_latent_data) ==
    [user_data EXCEPT !.filled_latent =
        Put(@, blank_latent_id,
            [full_text |-> 0,
             wave_1 |-> <<[full_response |-> filled_latent_data.full_text]>>])]

(* an iteration that stores the filled text in the record of every user *)
fill_main_user_shared(p, store, u, resp) ==
    LET user_data == store[u]
        blank_latent_id == p.argv[1]
        built == build_prompt(p.argv[2], user_data)
        r == fill_latent(resp, u)
        called == [p EXCEPT !.calls[u] = @ + r.calls]
    IN  IF fill_already_exists(user_data, blank_latent_id)
        THEN [proc |-> NextUser(p, {Log("info", "already_exists", u, 0)}),
              store |-> store]
        ELSE IF built = "exit"
        THEN [proc |-> Exit(p, 1, FALSE, {}), store |-> store]
        ELSE IF built = "KeyError"
        THEN [proc |-> Exit(p, 1, TRUE, {}), store |-> store]
        ELSE IF r.ret # <<>>
        THEN [proc |-> NextUser(called, r.log \cup {Log("info", "saved", u, 0)}),
              store |-> [x \in DOMAIN store |->
                           fill_store(store[x], blank_latent_id, r.ret[1])]]
        ELSE [proc |-> NextUser(called,
                          r.log \cup {Log("warning", "no_filled_latent", u, 0)}),
              store |-> store]

(* main, lines 183-237: one iteration of the loop, for user u *)
fill_main_user(p, store, u, resp) ==
    LET user_data == store[u]
        blank_latent_id == p.argv[1]
        built == build_prompt(p.argv[2], user_data)
        r == fill_latent(resp, u)
        called == [p EXCEPT !.calls[u] = @ + r.calls]
    IN  IF fill_already_exists(user_data, blank_latent_id)
        THEN [proc |-> NextUser(p, {Log("info", "already_exists", u, 0)}),
              store |-> store]
        ELSE IF built = "exit"
        THEN [proc |-> Exit(p, 1, FALSE, {}), store |-> store]
        ELSE IF built = "KeyError"
        THEN [proc |-> Exit(p, 1, TRUE, {}), store |-> store]
        ELSE IF r.ret # <<>>
        THEN [proc |-> NextUser(called, r.log \cup {Log("info", "saved", u, 0)}),
              store |-> [store EXCEPT
                           ![u] = fill_store(user_data, blank_latent_id, r.ret[1])]]
        ELSE [proc |-> NextUser(called,
                          r.log \cup {Log("warning", "no_filled_latent", u, 0)}),
              store |-> store]

(* ------------ compute_latent_logits.py (Evaluate, Aggregate) ---------- *)
(* The echo call: the service returns the log-probabilities of the echoed  *)
(* prompt (response.prompt[0].logprobs) and of the one end token it        *)
(* generates (response.choices[0].logprobs), or lacks either, or raises.   *)
(* Token i of the prompt stream is named i, the end token 0.               *)
EndLogprobs == [tokens |-> <<0>>, token_logprobs |-> <<0>>]

(* the echoed prompt streams of the model: every length up to MaxStream,   *)
(* any level for the last token                                            *)
PromptLogprobs ==
    {[tokens |-> [i \in 1..Len(lps) |-> i], token_logprobs |-> lps] :
        lps \in {s \in SeqsOver(LogProbLevels, MaxStream) :
                    \A i \in 1..(Len(s) - 1) : s[i] = -1}}

EmptyPrompt == [tokens |-> <<>>, token_logprobs |-> <<>>]

EvalOutcomes ==
    {[raises |-> TRUE, choices_logprobs |-> <<>>, prompt_logprobs |-> <<>>],
     [raises |-> FALSE, choices_logprobs |-> <<>>,
      prompt_logprobs |-> <<EmptyPrompt>>]} \cup
    {[raises |-> FALSE, choices_logprobs |-> <<EndLogprobs>>, prompt_logprobs |-> pl] :
        pl \in {<<>>} \cup {<<x>> : x \in PromptLogprobs}}

(* seq[-n:] *)
LastN(seq, n) ==
    IF n = 0 \/ n >= Len(seq) THEN seq
    ELSE SubSeq(seq, Len(seq) - n + 1, Len(seq))

(* math.exp on a double: exp(lp) is 0.0 when lp is below 2^-1075 and       *)
(* raises OverflowError from 2^1024 on (lp in units of ln 2)               *)
ExpUnderflow == 1075
ExpOverflow == 1024

(* exp(lp), in units of the smallest probability of LogProbLevels *)
MinLevel == CHOOSE l \in LogProbLevels : \A m \in LogProbLevels : l <= m
ExpScaled(lp) == IF lp <= -ExpUnderflow THEN 0 ELSE 2 ^ (lp - MinLevel)

(* A float of convert_logprobs_to_probs is kept as m units of 2^MinLevel   *)
(* plus e times epsilon: epsilon = 1e-10 is far below the unit, so it      *)
(* is counted apart.  EpsilonScaled is the default epsilon, LogEpsilon     *)
(* is -1000 * log2(1e-10).                                                 *)
EpsilonScaled == 1
LogEpsilon == 33219

(* 1000 * log2(n), n = 1..16 *)
Log2Table == <<0, 1000, 1585, 2000, 2322, 2585, 2807, 3000,
               3170, 3322, 3459, 3585, 3700, 3807, 3907, 4000>>

(* a conversion that normalizes by the sum taken before epsilon is added *)
convert_logprobs_to_probs_unsmoothed(logprobs, epsilon) ==
    LET probs == [i \in 1..Len(logprobs) |->
                     [m |-> ExpScaled(logprobs[i]), e |-> epsilon]]
        total == [m |-> SumSeq([i \in 1..Len(probs) |-> probs[i].m]),
                  e |-> 0]
    IN  IF \E i \in 1..Len(logprobs) : logprobs[i] >= ExpOverflow THEN <<>>
        ELSE IF total.m = 0 THEN <<>>
        ELSE <<[weights |-> probs, total |-> total]>>

(* convert_logprobs_to_probs: None (<<>>) when exp raises or the sum is    *)
(* zero, else the normalized distribution, kept as the weights p + epsilon *)
(* and their total.                                                        *)
convert_logprobs_to_probs(logprobs, epsilon) ==
    LET probs == [i \in 1..Len(logprobs) |->
                     [m |-> ExpScaled(logprobs[i]), e |-> epsilon]]
        total == [m |-> SumSeq([i \in 1..Len(probs) |-> probs[i].m]),
                  e |-> SumSeq([i \in 1..Len(probs) |-> probs[i].e])]
    IN  IF \E i \in 1..Len(logprobs) : logprobs[i] >= ExpOverflow THEN <<>>
        ELSE IF total.m = 0 /\ total.e = 0 THEN <<>>
        ELSE <<[weights |-> probs, total |-> total]>>

(* 1000 * log2 of the normalized value x / total; the epsilon part of a    *)
(* value is below the resolution unless the value is epsilon alone         *)
log_normalized(x, total) ==
    IF total.m = 0 THEN Log2Table[x.e] - Log2Table[total.e]
    ELSE IF x.m > 0 THEN Log2Table[x.m] - Log2Table[total.m]
    ELSE Log2Table[x.e] - LogEpsilon - 1000 * MinLevel - Log2Table[total.m]

(* the sum with the ratio upside down: sum p_i * log(q_i / p_i) *)
entropy_swapped(p, q) ==
    LET mass(i) == IF p.total.m > 0 THEN p.weights[i].m ELSE p.weights[i].e
        whole == IF p.total.m > 0 THEN p.total.m ELSE p.total.e
    IN  SumSeq([i \in 1..Len(p.weights) |->
                   mass(i) * (log_normalized(q.weights[i], q.total)
                              - log_normalized(p.weights[i], p.total))])
        \div whole

(* scipy.stats.entropy(p, q) = sum p_i * log(p_i / q_i), in thousandths    *)
(* of a bit *)
entropy(p, q) ==
    LET mass(i) == IF p.total.m > 0 THEN p.weights[i].m ELSE p.weights[i].e
        whole == IF p.total.m > 0 THEN p.total.m ELSE p.total.e
    IN  SumSeq([i \in 1..Len(p.weights) |->
                   mass(i) * (log_normalized(p.weights[i], p.total)
                              - log_normalized(q.weights[i], q.total))])
        \div whole

(* compute_kl_divergence_logprobs: None (<<>>) when a conversion fails *)
compute_kl_divergence_logprobs(p_logp, q_logp) ==
    LET p == convert_logprobs_to_probs(p_logp, EpsilonScaled)
        q == convert_logprobs_to_probs(q_logp, EpsilonScaled)
    IN  IF p = <<>> \/ q = <<>> THEN <<>>
        ELSE <<entropy(p[1], q[1])>>

(* a compute_latent_logits that returns the end token alone when the     *)
(* echoed prompt carries no log-probabilities *)
compute_latent_logits_partial(resp, question_tokens_length, u, q) ==
    IF resp.raises
    THEN [ret |-> <<>>, calls |-> 1,
          log |-> {Log("error", "compute_logprobs_failed", u, q)}]
    ELSE IF resp.choices_logprobs = <<>>
    THEN [ret |-> <<>>, calls |-> 1,
          log |-> {Log("warning", "no_end_token", u, q)}]
    ELSE [ret |-> <<[tokens |-> resp.choices_logprobs[1].tokens,
                     token_logprobs |-> resp.choices_logprobs[1].token_logprobs]>>,
          calls |-> 1,
          log |-> IF resp.prompt_logprobs = <<>>
                  THEN {Log("warning", "no_logprobs", u, q)} ELSE {}]

(* compute_latent_logits: the echo call and the trim to the last           *)
(* question_tokens_length entries of prompt stream + end token             *)
compute_latent_logits(resp, question_tokens_length, u, q) ==
    IF resp.raises
    THEN [ret |-> <<>>, calls |-> 1,
          log |-> {Log("error", "compute_logprobs_failed", u, q)}]
    ELSE IF resp.choices_logprobs = <<>>
    THEN [ret |-> <<>>, calls |-> 1,
          log |-> {Log("warning", "no_end_token", u, q)}]
    ELSE IF resp.prompt_logprobs = <<>>
    THEN [ret |-> <<>>, calls |-> 1,
          log |-> {Log("warning", "no_logprobs", u, q)}]
    ELSE LET tokens == resp.prompt_logprobs[1].tokens
                          \o resp.choices_logprobs[1].tokens
             token_logprobs == resp.prompt_logprobs[1].token_logprobs
                          \o resp.choices_logprobs[1].token_logprobs
         IN [ret |-> <<[tokens |-> LastN(tokens, question_tokens_length),
                        token_logprobs |->
                            LastN(token_logprobs, question_tokens_length)]>>,
             calls |-> 1, log |-> {}]

(* main, lines 174-198 *)
compute_main_start(caller, args, apiOk, order) ==
    LET p == StartProc("compute", caller, args) IN
    IF Len(args) # 1
    THEN Exit(p, 1, FALSE, {Log("error", "usage", 0, 0)})
    ELSE IF ~apiOk THEN Exit(p, 1, TRUE, {})
    ELSE IF usersDir = {}
    THEN Exit(p, 0, FALSE, {Log("error", "no_user_files", 0, 0)})
    ELSE [p EXCEPT !.todo = order]

(* a divergence step that compares the common tail of two sequences of   *)
(* unequal length instead of giving up *)
record_divergence_truncating(existing_logprob_tokens, result_token_logprobs) ==
    LET n == IF Len(existing_logprob_tokens) < Len(result_token_logprobs)
             THEN Len(existing_logprob_tokens) ELSE Len(result_token_logprobs)
        p_logp == SubSeq(existing_logprob_tokens,
                         Len(existing_logprob_tokens) - n + 1,
                         Len(existing_logprob_tokens))
        q_logp == SubSeq(result_token_logprobs,
                         Len(result_token_logprobs) - n + 1,
                         Len(result_token_logprobs))
        kl_divergence == compute_kl_divergence_logprobs(p_logp, q_logp)
    IN  IF kl_divergence # <<>>
        THEN [kl |-> kl_divergence, level |-> "info", what |-> "kl_computed"]
        ELSE [kl |-> <<>>, level |-> "warning", what |-> "kl_not_computed"]

(* a divergence step that records 0 when the computation fails *)
record_divergence_zero(existing_logprob_tokens, result_token_logprobs) ==
    LET kl_divergence == compute_kl_divergence_logprobs(
                             existing_logprob_tokens, result_token_logprobs)
    IN  IF Len(existing_logprob_tokens) # Len(result_token_logprobs)
        THEN [kl |-> <<>>, level |-> "warning", what |-> "length_mismatch"]
        ELSE IF kl_divergence # <<>>
        THEN [kl |-> kl_divergence, level |-> "info", what |-> "kl_computed"]
        ELSE [kl |-> <<0>>, level |-> "info", what |-> "kl_computed"]

(* main, lines 282-297: the divergence of one evaluation, None (<<>>)     *)
(* with a warning when the lengths differ or the computation fails         *)
record_divergence(existing_logprob_tokens, result_token_logprobs) ==
    LET kl_divergence == compute_kl_divergence_logprobs(
                             existing_logprob_tokens, result_token_logprobs)
    IN  IF Len(existing_logprob_tokens) # Len(result_token_logprobs)
        THEN [kl |-> <<>>, level |-> "warning", what |-> "length_mismatch"]
        ELSE IF kl_divergence # <<>>
        THEN [kl |-> kl_divergence, level |-> "info", what |-> "kl_computed"]
        ELSE [kl |-> <<>>, level |-> "warning", what |-> "kl_not_computed"]

(* an evaluation that leaves a question alone once it holds a divergence  *)
(* for the version *)
compute_main_question_keeping(question_data, blank_latent_id, resp, u, q) ==
    LET tr == question_data.transcript
        existing_response == IF tr = <<>> THEN 0 ELSE tr[1].response
        existing_tokens == IF tr = <<>> THEN <<>> ELSE tr[1].tokens
        existing_logprob_tokens ==
            IF tr = <<>> THEN <<>> ELSE tr[1].token_logprobs_transcript
        r == compute_latent_logits(resp, Len(existing_tokens), u, q)
        result_token_logprobs == r.ret[1].token_logprobs
        d == record_divergence(existing_logprob_tokens, result_token_logprobs)
        entry == [tokens |-> r.ret[1].tokens,
                  token_logprobs_answer |-> result_token_logprobs,
                  kl_divergence |-> d.kl]
    IN  IF existing_response = 0
        THEN [qd |-> question_data, calls |-> 0,
              log |-> {Log("warning", "no_transcript_response", u, q)}]
        ELSE IF /\ blank_latent_id \in DOMAIN question_data.latents
                /\ question_data.latents[blank_latent_id].kl_divergence # <<>>
        THEN [qd |-> question_data, calls |-> 0,
              log |-> {Log("info", "already_exists", u, q)}]
        ELSE IF r.ret = <<>>
        THEN [qd |-> question_data, calls |-> r.calls,
              log |-> r.log \cup {Log("warning", "no_logprobs_computed", u, q)}]
        ELSE [qd |-> [question_data EXCEPT
                        !.latents = Put(@, blank_latent_id, entry)],
              calls |-> r.calls,
              log |-> r.log \cup {Log(d.level, d.what, u, q)}]

(* an evaluation that keeps the entry of its own version alone *)
compute_main_question_forgetting(question_data, blank_latent_id, resp, u, q) ==
    LET tr == question_data.transcript
        existing_response == IF tr = <<>> THEN 0 ELSE tr[1].response
        existing_tokens == IF tr = <<>> THEN <<>> ELSE tr[1].tokens
        existing_logprob_tokens ==
            IF tr = <<>> THEN <<>> ELSE tr[1].token_logprobs_transcript
        r == compute_latent_logits(resp, Len(existing_tokens), u, q)
        result_token_logprobs == r.ret[1].token_logprobs
        d == record_divergence(existing_logprob_tokens, result_token_logprobs)
        entry == [tokens |-> r.ret[1].tokens,
                  token_logprobs_answer |-> result_token_logprobs,
                  kl_divergence |-> d.kl]
    IN  IF existing_response = 0
        THEN [qd |-> question_data, calls |-> 0,
              log |-> {Log("warning", "no_transcript_response", u, q)}]
        ELSE IF r.ret = <<>>
        THEN [qd |-> question_data, calls |-> r.calls,
              log |-> r.log \cup {Log("warning", "no_logprobs_computed", u, q)}]
        ELSE [qd |-> [question_data EXCEPT
                        !.latents = Put(EmptyMap, blank_latent_id, entry)],
              calls |-> r.calls,
              log |-> r.log \cup {Log(d.level, d.what, u, q)}]

(* main, lines 241-299: one question.  qd is the question as main leaves   *)
(* it in user_data.                                                        *)
compute_main_question(question_data, blank_latent_id, resp, u, q) ==
    LET tr == question_data.transcript
        existing_response == IF tr = <<>> THEN 0 ELSE tr[1].response
        existing_tokens == IF tr = <<>> THEN <<>> ELSE tr[1].tokens
        existing_logprob_tokens ==
            IF tr = <<>> THEN <<>> ELSE tr[1].token_logprobs_transcript
        r == compute_latent_logits(resp, Len(existing_tokens), u, q)
        result_token_logprobs == r.ret[1].token_logprobs
        d == record_divergence(existing_logprob_tokens, result_token_logprobs)
        entry == [tokens |-> r.ret[1].tokens,
                  token_logprobs_answer |-> result_token_logprobs,
                  kl_divergence |-> d.kl]
    IN  IF existing_response = 0
        THEN [qd |-> question_data, calls |-> 0,
              log |-> {Log("warning", "no_transcript_response", u, q)}]
        ELSE IF r.ret = <<>>
        THEN [qd |-> question_data, calls |-> r.calls,
              log |-> r.log \cup {Log("warning", "no_logprobs_computed", u, q)}]
        ELSE [qd |-> [question_data EXCEPT
                        !.latents = Put(@, blank_latent_id, entry)],
              calls |-> r.calls,
              log |-> r.log \cup {Log(d.level, d.what, u, q)}]

(* main, lines 230-303: the question banks of one user; resps[b][q] is     *)
(* what the service does on the call for question q of bank b.             *)
compute_main_banks(question_banks, blank_latent_id, resps, u) ==
    LET one(b, q) == compute_main_question(
                         question_banks[b].questions[q], blank_latent_id,
                         resps[b][q], u, q)
        Asked == UNION {{<<b, q>> : q \in DOMAIN question_banks[b].questions} :
                           b \in DOMAIN question_banks}
    IN  [banks |-> [b \in DOMAIN question_banks |->
                      [question_banks[b] EXCEPT !.questions =
                          [q \in DOMAIN question_banks[b].questions |->
                              one(b, q).qd]]],
         calls |-> Cardinality({s \in Asked : one(s[1], s[2]).calls = 1}),
         log |-> UNION {one(s[1], s[2]).log : s \in Asked}]

(* main, lines 200-228 and the loop over the banks, for user u *)
compute_main_user(p, store, u, resps) ==
    LET blank_latent_id == p.argv[1]
        user_data == store[u]
        filled_latents == user_data.filled_latent
        latent_content == filled_latents[blank_latent_id].full_text
        question_banks == user_data.question_banks
        r == compute_main_banks(question_banks, blank_latent_id, resps, u)
        skip(what) == [proc |-> NextUser(p, {Log("warning", what, u, 0)}),
                       store |-> store]
    IN  IF u \notin DOMAIN store THEN skip("could_not_load")
        ELSE IF filled_latents = EmptyMap THEN skip("no_filled_latent")
        ELSE IF blank_latent_id \notin DOMAIN filled_latents
        THEN [proc |-> Exit(p, 1, TRUE, {}), store |-> store]
        ELSE IF latent_content = 0 THEN skip("latent_content_empty")
        ELSE IF question_banks = EmptyMap THEN skip("no_question_banks")
        ELSE [proc |-> NextUser([p EXCEPT !.calls[u] = @ + r.calls], r.log),
              store |-> [store EXCEPT ![u].question_banks = r.banks]]

(* ------------------ gen_blank_latent.py (Synthesize) ------------------ *)
(* utils.get_max_latent_key: the key with the largest numeric suffix,      *)
(* None (<<>>) when no key ends in digits                                  *)
get_max_latent_key(filled_latents) ==
    LET keys == DOMAIN filled_latents IN
    IF keys = {} THEN <<>>
    ELSE <<CHOOSE k \in keys : \A j \in keys : ParseInt(j) <= ParseInt(k)>>

(* a sort that leaves the list as it is *)
KeepOrder(s) == s

(* a prefix that is one element too long *)
FirstN_plus(seq, n) == IF n + 1 >= Len(seq) THEN seq ELSE SubSeq(seq, 1, n + 1)

(* sorted(kl_divergences, key=lambda x: x[1], reverse=True): stable *)
RECURSIVE InsertDesc(_, _)
InsertDesc(sorted, x) ==
    IF sorted = <<>> THEN <<x>>
    ELSE IF Head(sorted)[2] >= x[2]
    THEN <<Head(sorted)>> \o InsertDesc(Tail(sorted), x)
    ELSE <<x>> \o sorted

RECURSIVE SortDesc(_)
SortDesc(s) ==
    IF s = <<>> THEN <<>>
    ELSE InsertDesc(SortDesc(SubSeq(s, 1, Len(s) - 1)), s[Len(s)])

(* seq[:n] *)
FirstN(seq, n) == IF n >= Len(seq) THEN seq ELSE SubSeq(seq, 1, n)

(* lines 240-253: the (question text, divergence) pairs of one user, in    *)
(* the order of the banks and of the questions in them                     *)
RECURSIVE collect_kl(_, _, _)
collect_kl(questions, max_latent_key, q) ==
    IF q > NumQuestions THEN <<>>
    ELSE LET question_data == questions[q]
             has == /\ max_latent_key \in DOMAIN question_data.latents
                    /\ question_data.latents[max_latent_key].kl_divergence # <<>>
             rest == collect_kl(questions, max_latent_key, q + 1)
         IN  IF has
             THEN <<<<question_data.question,
                      question_data.latents[max_latent_key].kl_divergence[1]>>>>
                  \o rest
             ELSE rest

(* a collection that gives a user without divergences a default entry *)
kl_divergences_defaulting(question_banks, max_latent_key) ==
    LET found == IF question_banks = EmptyMap THEN <<>>
                 ELSE collect_kl(question_banks[1].questions, max_latent_key, 1)
    IN  IF found = <<>> THEN <<<<0, 0>>>> ELSE found

kl_divergences_of(question_banks, max_latent_key) ==
    IF question_banks = EmptyMap THEN <<>>
    ELSE collect_kl(question_banks[1].questions, max_latent_key, 1)

(* construct_aggregated_prompt: the fixed instructions, then one block     *)
(* per entry of users_data, in insertion order                             *)
construct_aggregated_prompt(users_data, k) ==
    [i \in 1..Len(users_data) |->
        [user |-> users_data[i].user,
         filled_latent |-> users_data[i].filled_latent,
         poorly |-> users_data[i].top_k_questions,
         best |-> users_data[i].bottom_k_questions]]

(* gen_blank_latent_aggregated: one chat-completion call inside            *)
(* try/except; the stripped text, "" (0) when the call raises              *)
gen_blank_latent_aggregated(users_data, resp, k) ==
    [prompt |-> construct_aggregated_prompt(users_data, k),
     ret |-> IF resp.raises THEN 0 ELSE resp.content,
     calls |-> 1,
     log |-> IF resp.raises THEN {Log("error", "gen_failed", 0, 0)} ELSE {}]

(* main, lines 169-195 *)
gen_main_start(caller, args, apiOk, order) ==
    LET p == StartProc("gen", caller, args) IN
    IF ~apiOk
    THEN Exit(p, 1, FALSE, {Log("error", "client_init_failed", 0, 0)})
    ELSE IF usersDir = {}
    THEN Exit(p, 0, FALSE, {Log("error", "no_user_files", 0, 0)})
    ELSE [p EXCEPT !.todo = order]

(* lines 261-277: the entry of users_data for one user *)
users_data_entry(u, latent_content, kl_divergences) ==
    LET kl_divergences_sorted == SortDesc(kl_divergences) IN
    [user |-> u,
     filled_latent |-> latent_content,
     top_k_questions |-> FirstN(kl_divergences_sorted, top_k),
     bottom_k_questions |-> LastN(kl_divergences_sorted, bottom_k)]

(* main, lines 197-277: one iteration of the loop, for user u.  The        *)
(* variable max_latent_key is a local of main: it keeps the value of the   *)
(* last iteration that reached line 221.                                   *)
gen_main_user(p, store, u) ==
    LET user_data == store[u]
        filled_latents == user_data.filled_latent
        max_latent_key == get_max_latent_key(filled_latents)
        assigned == [p EXCEPT !.max_latent_key = max_latent_key]
        latent_content == filled_latents[max_latent_key[1]].full_text
        question_banks == user_data.question_banks
        kl_divergences == kl_divergences_of(question_banks, max_latent_key[1])
        entry == users_data_entry(u, latent_content, kl_divergences)
        skip(q, what) == NextUser(q, {Log("warning", what, u, 0)})
    IN  IF u \notin DOMAIN store THEN skip(p, "could_not_load")
        ELSE IF filled_latents = EmptyMap THEN skip(p, "no_filled_latent")
        ELSE IF max_latent_key = <<>> THEN skip(assigned, "no_valid_keys")
        ELSE IF latent_content = 0 THEN skip(assigned, "latent_content_empty")
        ELSE IF question_banks = EmptyMap THEN skip(assigned, "no_question_banks")
        ELSE IF kl_divergences = <<>> THEN skip(assigned, "no_kl_data")
        ELSE NextUser([assigned EXCEPT !.users_data = Append(@, entry)], {})

(* lines 302-317: the file name of the new template *)
new_latent_key(max_latent_key) ==
    ZFill(Str(ParseInt(max_latent_key) + 1), Len(max_latent_key))

(* a finish that asks for a template whatever was collected *)
gen_main_finish_unguarded(p, registry, resp) ==
    LET r == gen_blank_latent_aggregated(p.users_data, resp, top_k)
        called == [p EXCEPT !.gen_calls = @ + r.calls, !.prompt = r.prompt]
        key == IF p.max_latent_key = <<>> THEN SeedKey
               ELSE new_latent_key(p.max_latent_key[1])
    IN  IF r.ret = 0
        THEN [proc |-> Exit(called, 0, FALSE,
                            r.log \cup {Log("error", "no_new_template", 0, 0)}),
              registry |-> registry]
        ELSE [proc |-> Exit([called EXCEPT !.written = <<key>>], 0, FALSE, r.log),
              registry |-> Put(registry, key, [full_text |-> r.ret])]

(* main, lines 279-327: after the loop *)
gen_main_finish(p, registry, resp) ==
    LET r == gen_blank_latent_aggregated(p.users_data, resp, top_k)
        called == [p EXCEPT !.gen_calls = @ + r.calls, !.prompt = r.prompt]
        key == new_latent_key(p.max_latent_key[1])
    IN  IF p.users_data = <<>>
        THEN [proc |-> Exit(p, 0, FALSE, {Log("error", "no_valid_user_data", 0, 0)}),
              registry |-> registry]
        ELSE IF r.ret = 0
        THEN [proc |-> Exit(called, 0, FALSE,
                            r.log \cup {Log("error", "no_new_template", 0, 0)}),
              registry |-> registry]
        ELSE [proc |-> Exit([called EXCEPT !.written = <<key>>], 0, FALSE, r.log),
              registry |-> Put(registry, key, [full_text |-> r.ret])]

(* ------------- initialize_directories.process_blank_latent ------------- *)
(* The one file of input/blank_latent_init, stripped, is written to        *)
(* blank_latent_000.json; nothing happens unless there is exactly one file *)
process_blank_latent(registry, init_files, content) ==
    IF init_files # 1 THEN registry
    ELSE Put(registry, SeedKey, [full_text |-> content])

(* --------------------------- evolooption.py --------------------------- *)
(* get_max_blank_latent_key_dir: the largest number among the files        *)
(* blank_latent_<digits>.json, zero-padded to three digits;                *)
(* 'blank_latent_000' when there is none                                   *)
get_max_blank_latent_key_dir(registry) ==
    LET keys == DOMAIN registry IN
    IF keys = {} THEN ZFill(<<0>>, KeyWidth)
    ELSE LET k == CHOOSE k \in keys : \A j \in keys : ParseInt(j) <= ParseInt(k)
         IN  ZFill(Str(ParseInt(k)), KeyWidth)

(* the command line of each subprocess.run of the loop *)
driver_args(stage, current_latent_key) ==
    IF stage = "gen" THEN <<>> ELSE <<current_latent_key>>

(* main of the stage the driver runs *)
stage_main_start(stage, caller, args, apiOk, order) ==
    IF stage = "fill" THEN fill_main_start(caller, args, apiOk, order)
    ELSE IF stage = "compute" THEN compute_main_start(caller, args, apiOk, order)
    ELSE gen_main_start(caller, args, apiOk, order)

(* the files the stage lists: data/users/NEO for fill_latents.py,          *)
(* data/users for the other two                                            *)
listed_users(stage) == IF stage = "fill" THEN DOMAIN neoStore ELSE usersDir

(* a driver that goes on whatever the exit status *)
driver_after_ignoring(d, exit_status) ==
    IF d.pc = "fill" THEN [d EXCEPT !.pc = "compute"]
    ELSE IF d.pc = "compute" THEN [d EXCEPT !.pc = "gen"]
    ELSE IF d.iteration < num_iterations
    THEN [d EXCEPT !.pc = "fill", !.iteration = @ + 1, !.key = <<>>]
    ELSE [d EXCEPT !.pc = "done", !.exit = 0]

(* lines 90-117: what follows a subprocess.run(check=True) that returned   *)
driver_after(d, exit_status) ==
    IF exit_status # 0
    THEN [d EXCEPT !.pc = "halted", !.exit = 1]
    ELSE IF d.pc = "fill" THEN [d EXCEPT !.pc = "compute"]
    ELSE IF d.pc = "compute" THEN [d EXCEPT !.pc = "gen"]
    ELSE IF d.iteration < num_iterations
    THEN [d EXCEPT !.pc = "fill", !.iteration = @ + 1, !.key = <<>>]
    ELSE [d EXCEPT !.pc = "done", !.exit = 0]

(* ------------------------------ actions ------------------------------- *)
(* Commands are run one after the other: a command is started when none    *)
(* runs and the driver is not in its loop.                                 *)
CliFree ==
    /\ proc.status = "exited"
    /\ driver.pc \in {"off", "halted", "done"}
    /\ commands < MaxCommands

(* the registry is not grown past MaxVersion *)
VersionRoom ==
    \A u \in DOMAIN neoStore : \A k \in DOMAIN neoStore[u].filled_latent :
        ParseInt(k) < MaxVersion

FillArgs == {<<k>> : k \in KeyArgs} \cup
            {<<k, t>> : k \in KeyArgs, t \in PromptTypes}

ComputeArgs == {<<>>} \cup {<<k>> : k \in KeyArgs}

FillStart ==
    /\ CliFree
    /\ \E args \in FillArgs, apiOk \in BOOLEAN, order \in Perms(listed_users("fill")) :
           proc' = fill_main_start("cli", args, apiOk, order)
    /\ commands' = commands + 1
    /\ UNCHANGED <<blank_latents, usersDir, neoStore, driver>>

FillUser ==
    /\ proc.status = "running" /\ proc.stage = "fill" /\ proc.todo # <<>>
    /\ \E resp \in ChatOutcomes(FilledTexts) :
           LET r == fill_main_user(proc, neoStore, Head(proc.todo), resp)
           IN  proc' = r.proc /\ neoStore' = r.store
    /\ UNCHANGED <<blank_latents, usersDir, driver, commands>>

ComputeStart ==
    /\ CliFree
    /\ \E args \in ComputeArgs, apiOk \in BOOLEAN,
          order \in Perms(listed_users("compute")) :
           proc' = compute_main_start("cli", args, apiOk, order)
    /\ commands' = commands + 1
    /\ UNCHANGED <<blank_latents, usersDir, neoStore, driver>>

ComputeUser ==
    /\ proc.status = "running" /\ proc.stage = "compute" /\ proc.todo # <<>>
    /\ \E resps \in [{1} -> [QuestionIds -> EvalOutcomes]] :
           LET r == compute_main_user(proc, neoStore, Head(proc.todo), resps)
           IN  proc' = r.proc /\ neoStore' = r.store
    /\ UNCHANGED <<blank_latents, usersDir, driver, commands>>

GenStart ==
    /\ CliFree
    /\ VersionRoom
    /\ \E apiOk \in BOOLEAN, order \in Perms(listed_users("gen")) :
           proc' = gen_main_start("cli", <<>>, apiOk, order)
    /\ commands' = commands + 1
    /\ UNCHANGED <<blank_latents, usersDir, neoStore, driver>>

GenUser ==
    /\ proc.status = "running" /\ proc.stage = "gen" /\ proc.todo # <<>>
    /\ proc' = gen_main_user(proc, neoStore, Head(proc.todo))
    /\ UNCHANGED <<blank_latents, usersDir, neoStore, driver, commands>>

GenFinish ==
    /\ proc.status = "running" /\ proc.stage = "gen" /\ proc.todo = <<>>
    /\ \E resp \in ChatOutcomes(Texts) :
           LET r == gen_main_finish(proc, blank_latents, resp)
           IN  proc' = r.proc /\ blank_latents' = r.registry
    /\ UNCHANGED <<usersDir, neoStore, driver, commands>>

(* the loop of fill_latents.py or compute_latent_logits.py is over: main   *)
(* returns *)
StageEnd ==
    /\ proc.status = "running" /\ proc.stage \in {"fill", "compute"}
    /\ proc.todo = <<>>
    /\ proc' = Exit(proc, 0, FALSE, {})
    /\ UNCHANGED <<blank_latents, usersDir, neoStore, driver, commands>>

(* initialize_directories.py is run (again) *)
Seed ==
    /\ CliFree
    /\ \E init_files \in 0..2, content \in Texts :
           blank_latents' = process_blank_latent(blank_latents, init_files, content)
    /\ commands' = commands + 1
    /\ UNCHANGED <<usersDir, neoStore, proc, driver>>

(* evolooption.py, lines 44-77: the scripts and directories are verified   *)
DriverStart ==
    /\ CliFree
    /\ \E envOk \in BOOLEAN :
           driver' = IF envOk
                     THEN [pc |-> "fill", iteration |-> 1, key |-> <<>>,
                           waiting |-> FALSE, exit |-> 0]
                     ELSE [IdleDriver EXCEPT !.pc = "halted", !.exit = 1]
    /\ commands' = commands + 1
    /\ UNCHANGED <<blank_latents, usersDir, neoStore, proc>>

(* subprocess.run(['python', script, ...]): the stage command starts *)
DriverSpawn ==
    /\ driver.pc \in {"fill", "compute", "gen"}
    /\ ~driver.waiting
    /\ driver.pc = "gen" => VersionRoom
    /\ LET key == IF driver.pc = "fill"
                  THEN get_max_blank_latent_key_dir(blank_latents)
                  ELSE driver.key[1]
       IN  /\ \E apiOk \in BOOLEAN, order \in Perms(listed_users(driver.pc)) :
                  proc' = stage_main_start(driver.pc, "driver",
                                           driver_args(driver.pc, key), apiOk, order)
           /\ driver' = [driver EXCEPT !.key = <<key>>, !.waiting = TRUE]
    /\ UNCHANGED <<blank_latents, usersDir, neoStore, commands>>

(* subprocess.run returns, or raises CalledProcessError *)
DriverReap ==
    /\ driver.pc \in {"fill", "compute", "gen"}
    /\ driver.waiting
    /\ proc.status = "exited"
    /\ driver' = [driver_after(driver, proc.exit) EXCEPT !.waiting = FALSE]
    /\ UNCHANGED <<blank_latents, usersDir, neoStore, proc, commands>>

Next ==
    \/ Seed
    \/ FillStart
    \/ FillUser
    \/ ComputeStart
    \/ ComputeUser
    \/ GenStart
    \/ GenUser
    \/ GenFinish
    \/ StageEnd
    \/ DriverStart
    \/ DriverSpawn
    \/ DriverReap

Spec == Init /\ [][Next]_vars

(* ------------------- get_answers.py (ground truth) -------------------- *)
(* What the chat-completion call of get_answers can do: raise, or answer   *)
(* with a stripped text and no log-probabilities, those of one token, or   *)
(* those of MaxTokens tokens.                                              *)
AnswerOutcomes ==
    {[raises |-> TRUE, content |-> 0, logprobs |-> <<>>]} \cup
    {[raises |-> FALSE, content |-> t, logprobs |-> lp] :
        t \in {0, 1},
        lp \in {<<>>, <<SomeLogprobs>>,
                <<[tokens |-> Transcript(MaxTokens).tokens,
                   token_logprobs |->
                       Transcript(MaxTokens).token_logprobs_transcript]>>}}

(* get_answers: one chat-completion call inside try/except; the returned   *)
(* dict, {} (<<>>) when the call raises                                    *)
get_answers(resp, u, q) ==
    IF resp.raises
    THEN [ret |-> <<>>, calls |-> 1,
          log |-> {Log("error", "get_answers_failed", u, q)}]
    ELSE [ret |-> <<[response |-> resp.content,
                     tokens |-> IF resp.logprobs # <<>>
                                THEN resp.logprobs[1].tokens ELSE <<>>,
                     token_logprobs |->
                                IF resp.logprobs # <<>>
                                THEN resp.logprobs[1].token_logprobs ELSE <<>>]>>,
          calls |-> 1,
          log |-> IF resp.logprobs # <<>> THEN {}
                  ELSE {Log("warning", "no_logprobs", u, q)}]

(* main, lines 83-98 *)
answers_main_start(caller, args, apiOk, order) ==
    LET p == StartProc("answers", caller, args) IN
    IF ~apiOk THEN Exit(p, 1, TRUE, {})
    ELSE IF usersDir = {}
    THEN Exit(p, 0, FALSE, {Log("error", "no_user_files", 0, 0)})
    ELSE [p EXCEPT !.todo = order]

(* a question step that asks again whatever the question holds *)
answers_main_question_overwriting(question_data, resp, u, q) ==
    LET r == get_answers(resp, u, q) IN
    IF r.ret # <<>>
    THEN [qd |-> [question_data EXCEPT !.transcript =
                     <<[response |-> r.ret[1].response,
                        tokens |-> r.ret[1].tokens,
                        token_logprobs_transcript |-> r.ret[1].token_logprobs]>>],
          calls |-> r.calls, log |-> r.log]
    ELSE [qd |-> question_data, calls |-> r.calls,
          log |-> r.log \cup {Log("warning", "no_response_data", u, q)}]

(* main, lines 131-162: one question *)
answers_main_question(question_data, resp, u, q) ==
    LET tr == question_data.transcript
        r == get_answers(resp, u, q)
    IN  IF tr # <<>> /\ tr[1].response # 0
        THEN [qd |-> question_data, calls |-> 0,
              log |-> {Log("info", "transcript_exists", u, q)}]
        ELSE IF r.ret # <<>>
        THEN [qd |-> [question_data EXCEPT !.transcript =
                         <<[response |-> r.ret[1].response,
                            tokens |-> r.ret[1].tokens,
                            token_logprobs_transcript |->
                                r.ret[1].token_logprobs]>>],
              calls |-> r.calls, log |-> r.log]
        ELSE [qd |-> question_data, calls |-> r.calls,
              log |-> r.log \cup {Log("warning", "no_response_data", u, q)}]

(* main, lines 100-166: one iteration of the loop, for user u.  A record   *)
(* of the model carries question banks, which process_transcripts writes   *)
(* together with a transcript, so 'transcripts' is never empty.            *)
answers_main_user(p, store, u, resps) ==
    LET user_data == store[u]
        question_banks == user_data.question_banks
        one(b, q) == answers_main_question(question_banks[b].questions[q],
                                           resps[b][q], u, q)
        Asked == UNION {{<<b, q>> : q \in DOMAIN question_banks[b].questions} :
                           b \in DOMAIN question_banks}
        banks == [b \in DOMAIN question_banks |->
                     [question_banks[b] EXCEPT !.questions =
                         [q \in DOMAIN question_banks[b].questions |->
                             one(b, q).qd]]]
        called == [p EXCEPT !.calls[u] =
                      @ + Cardinality({s \in Asked : one(s[1], s[2]).calls = 1})]
    IN  IF u \notin DOMAIN store
        THEN [proc |-> NextUser(p, {Log("warning", "could_not_load", u, 0)}),
              store |-> store]
        ELSE [proc |-> NextUser(called, UNION {one(s[1], s[2]).log : s \in Asked}),
              store |-> [store EXCEPT ![u].question_banks = banks]]

AnswersStart ==
    /\ CliFree
    /\ \E apiOk \in BOOLEAN, order \in Perms(usersDir) :
           proc' = answers_main_start("cli", <<>>, apiOk, order)
    /\ commands' = commands + 1
    /\ UNCHANGED <<blank_latents, usersDir, neoStore, driver>>

AnswersUser ==
    /\ proc.status = "running" /\ proc.stage = "answers" /\ proc.todo # <<>>
    /\ \E resps \in [{1} -> [QuestionIds -> AnswerOutcomes]] :
           LET r == answers_main_user(proc, neoStore, Head(proc.todo), resps)
           IN  proc' = r.proc /\ neoStore' = r.store
    /\ UNCHANGED <<blank_latents, usersDir, driver, commands>>

(* the loop of get_answers.py is over: main returns *)
AnswersEnd ==
    /\ proc.status = "running" /\ proc.stage = "answers" /\ proc.todo = <<>>
    /\ proc' = Exit(proc, 0, FALSE, {})
    /\ UNCHANGED <<blank_latents, usersDir, neoStore, driver, commands>>

(* The pipeline with get_answers.py among its commands, started from a     *)
(* seeded registry and two instantiated users whose question has no        *)
(* answer yet or an answer of MaxTokens tokens.                            *)
TruthInit ==
    /\ blank_latents = RegistryUpTo(0)
    /\ neoStore \in [Users -> {[questions |-> TRUE, filled_latent |-> FilledUpTo(0),
                                question_banks |-> BankWith(t)] :
                                  t \in {<<>>, <<Transcript(MaxTokens)>>}}]
    /\ usersDir = Users
    /\ proc = IdleProc
    /\ driver = IdleDriver
    /\ commands = 0

TruthNext ==
    \/ Next
    \/ AnswersStart
    \/ AnswersUser
    \/ AnswersEnd

TruthSpec == TruthInit /\ [][TruthNext]_vars

(* ------------------ two commands at the same time --------------------- *)
(* compute_latent_logits.py (for template 000) and get_answers.py are      *)
(* started together and reach the same user.  Each loads the user's        *)
(* file, works on its own copy and saves the copy; nothing in utils.py     *)
(* keeps the two apart.  proc holds, for each command, its place, the      *)
(* record it loaded and its copy.  A file that save_json has opened and    *)
(* not yet written is empty: load_json returns {} for it, as for a file    *)
(* that is missing.                                                        *)
Commands == {"compute", "answers"}

(* utils.load_json: the record, {} (<<>>) when the file cannot be parsed *)
load_json(store, u) == IF u \in DOMAIN store THEN <<store[u]>> ELSE <<>>

(* utils.save_json, line 33: open(file_path, 'w') empties the file *)
save_json_open(store, u) == [x \in DOMAIN store \ {u} |-> store[x]]

(* utils.save_json, line 34: json.dump writes the record *)
save_json_dump(store, u, data) == Put(store, u, data)

AtLoad(u) == [pc |-> "load", user |-> u, loaded |-> <<>>, user_data |-> <<>>]

ConcInit ==
    /\ blank_latents = RegistryUpTo(0)
    /\ neoStore \in [Users -> {[questions |-> TRUE, filled_latent |-> FilledUpTo(0),
                                question_banks |-> BankWith(t)] :
                                  t \in {<<>>, <<Transcript(MaxTokens)>>}}]
    /\ usersDir = Users
    /\ \E u \in Users : proc = [c \in Commands |-> AtLoad(u)]
    /\ driver = IdleDriver
    /\ commands = 0

(* load_user_data(user_id); the command skips the user when it gets {} *)
ConcLoad ==
    /\ \E c \in Commands :
          /\ proc[c].pc = "load"
          /\ LET user_data == load_json(neoStore, proc[c].user) IN
             proc' = IF user_data = <<>>
                     THEN [proc EXCEPT ![c].pc = "done"]
                     ELSE [proc EXCEPT ![c].pc = "work", ![c].loaded = user_data,
                                       ![c].user_data = user_data]
    /\ UNCHANGED <<blank_latents, usersDir, neoStore, driver, commands>>

(* compute_latent_logits.py, lines 211-299, on its copy *)
ConcEvaluate ==
    /\ proc["compute"].pc = "work"
    /\ \E resps \in [{1} -> [QuestionIds -> EvalOutcomes]] :
           LET u == proc["compute"].user
               p == [StartProc("compute", "cli", <<SeedKey>>) EXCEPT !.todo = <<u>>]
               mine == [x \in {u} |-> proc["compute"].user_data[1]]
               r == compute_main_user(p, mine, u, resps)
           IN  proc' = [proc EXCEPT !["compute"].pc = "save",
                                    !["compute"].user_data = <<r.store[u]>>]
    /\ UNCHANGED <<blank_latents, usersDir, neoStore, driver, commands>>

(* get_answers.py, lines 110-162, on its copy *)
ConcAsk ==
    /\ proc["answers"].pc = "work"
    /\ \E resps \in [{1} -> [QuestionIds -> AnswerOutcomes]] :
           LET u == proc["answers"].user
               p == [StartProc("answers", "cli", <<>>) EXCEPT !.todo = <<u>>]
               mine == [x \in {u} |-> proc["answers"].user_data[1]]
               r == answers_main_user(p, mine, u, resps)
           IN  proc' = [proc EXCEPT !["answers"].pc = "save",
                                    !["answers"].user_data = <<r.store[u]>>]
    /\ UNCHANGED <<blank_latents, usersDir, neoStore, driver, commands>>

(* save_user_data(user_id, user_data): the file is opened for writing *)
ConcSaveOpen ==
    /\ \E c \in Commands :
          /\ proc[c].pc = "save"
          /\ neoStore' = save_json_open(neoStore, proc[c].user)
          /\ proc' = [proc EXCEPT ![c].pc = "dump"]
    /\ UNCHANGED <<blank_latents, usersDir, driver, commands>>

(* save_user_data(user_id, user_data): the copy is written *)
ConcSaveDump ==
    /\ \E c \in Commands :
          /\ proc[c].pc = "dump"
          /\ neoStore' = save_json_dump(neoStore, proc[c].user,
                                        proc[c].user_data[1])
          /\ proc' = [proc EXCEPT ![c].pc = "done"]
    /\ UNCHANGED <<blank_latents, usersDir, driver, commands>>

ConcNext ==
    \/ ConcLoad
    \/ ConcEvaluate
    \/ ConcAsk
    \/ ConcSaveOpen
    \/ ConcSaveDump

ConcSpec == ConcInit /\ [][ConcNext]_vars

(* --------------- initialize_directories.py (ingestion) ---------------- *)
(* initialize_directories.py reads input/question_banks_txt,               *)
(* input/transcripts and input/blank_latent_init and writes                *)
(* data/users/user_{id}.json and data/blank_latents/blank_latent_000.json. *)
(* In this part usersDir holds the files of data/users with their          *)
(* content, user id -> record, and proc holds the input directories and    *)
(* the place of the command.  A line of a text file is a text, 0 when the  *)
(* line is blank after strip().                                            *)
NonBlank(lines) == SelectSeq(lines, LAMBDA t : t # 0)

(* process_question_banks: the first line is the instructions, every       *)
(* other non-blank line a question; a file of fewer than two lines is      *)
(* skipped.  Question q of the model is question_{q-1}.                    *)
process_question_banks(files) ==
    [b \in {x \in DOMAIN files : Len(files[x]) >= 2} |->
        LET questions_list == NonBlank(Tail(files[b])) IN
        [instructions |-> files[b][1],
         questions |-> [q \in 1..Len(questions_list) |->
                          [question |-> questions_list[q]]]]]

BankFiles == [{1} -> SeqsOver(Texts, NumQuestions + 1)]

(* transcript_{id}.txt with its content; <<>> for a name without a         *)
(* numeric id                                                              *)
TranscriptFiles ==
    {[user_id |-> <<u>>, content |-> c] : u \in Users, c \in 1..NumTexts}
    \cup {[user_id |-> <<>>, content |-> 1]}

(* a merge that lets the question of the file replace the stored one *)
merge_question_banks_overwriting(old, question_banks) ==
    [b \in DOMAIN old \cup DOMAIN question_banks |->
        IF b \notin DOMAIN question_banks THEN old[b]
        ELSE IF b \notin DOMAIN old THEN question_banks[b]
        ELSE [instructions |-> question_banks[b].instructions,
              questions |->
                 [q \in DOMAIN old[b].questions
                           \cup DOMAIN question_banks[b].questions |->
                     IF q \in DOMAIN question_banks[b].questions
                     THEN question_banks[b].questions[q]
                     ELSE old[b].questions[q]]]]

(* process_transcripts, lines 112-125: a bank the user lacks is added; of  *)
(* a bank the user has, the instructions are updated and the questions     *)
(* the user lacks are added                                                *)
merge_question_banks(old, question_banks) ==
    [b \in DOMAIN old \cup DOMAIN question_banks |->
        IF b \notin DOMAIN question_banks THEN old[b]
        ELSE IF b \notin DOMAIN old THEN question_banks[b]
        ELSE [instructions |-> question_banks[b].instructions,
              questions |->
                 [q \in DOMAIN old[b].questions
                           \cup DOMAIN question_banks[b].questions |->
                     IF q \in DOMAIN old[b].questions
                     THEN old[b].questions[q]
                     ELSE question_banks[b].questions[q]]]]

(* process_transcripts, lines 78-129, for one transcript file *)
process_transcript(store, question_banks, file) ==
    IF file.user_id = <<>> THEN store
    ELSE
    LET user_id == file.user_id[1]
        transcript_content == file.content
        user_data == IF user_id \in DOMAIN store THEN store[user_id] ELSE EmptyMap
        transcripts ==
            IF "transcripts" \in DOMAIN user_data
            THEN IF \E i \in 1..Len(user_data["transcripts"]) :
                        user_data["transcripts"][i] = transcript_content
                 THEN user_data["transcripts"]
                 ELSE Append(user_data["transcripts"], transcript_content)
            ELSE <<transcript_content>>
        old == IF "question_banks" \in DOMAIN user_data
               THEN user_data["question_banks"] ELSE EmptyMap
    IN  Put(store, user_id,
            [k \in DOMAIN user_data \cup {"transcripts", "question_banks"} |->
                IF k = "transcripts" THEN transcripts
                ELSE IF k = "question_banks"
                THEN merge_question_banks(old, question_banks)
                ELSE user_data[k]])

(* the bank of a record later stages have worked on: an answer and an      *)
(* evaluation for template 000                                             *)
WorkedBank ==
    [b \in {1} |->
        [instructions |-> 1,
         questions |-> [q \in QuestionIds |->
                          [question |-> q,
                           transcript |-> <<Transcript(MaxTokens)>>,
                           latents |-> [v \in {SeedKey} |->
                                          [kl_divergence |-> <<0>>]]]]]]

(* the records data/users can hold: written by an earlier ingestion of     *)
(* any question bank file, or worked on since                              *)
IngestedRecords ==
    {[transcripts |-> <<1>>, question_banks |-> qb] :
        qb \in {process_question_banks(f) : f \in BankFiles} \cup {WorkedBank}}

IngestInit ==
    /\ blank_latents = EmptyMap
    /\ neoStore = EmptyMap
    /\ \E D \in SUBSET Users : usersDir \in [D -> IngestedRecords]
    /\ \E files \in {F \in SUBSET TranscriptFiles : Cardinality(F) <= MaxFiles},
          bank_files \in BankFiles, init \in {<<>>, <<1>>} :
          proc = [stage |-> "initialize", status |-> "exited",
                  transcripts |-> files, question_banks_txt |-> bank_files,
                  blank_latent_init |-> init, question_banks |-> EmptyMap,
                  todo |-> <<>>, last |-> <<>>]
    /\ driver = IdleDriver
    /\ commands = 0

(* python initialize_directories.py: the question banks are read and the   *)
(* transcript files listed, in any order                                   *)
IngestStart ==
    /\ proc.status = "exited"
    /\ commands < MaxCommands
    /\ \E order \in Perms(proc.transcripts) :
          proc' = [proc EXCEPT !.status = "running",
                     !.question_banks = process_question_banks(proc.question_banks_txt),
                     !.todo = order, !.last = <<>>]
    /\ commands' = commands + 1
    /\ UNCHANGED <<blank_latents, usersDir, neoStore, driver>>

(* one turn of the loop of process_transcripts *)
IngestTranscript ==
    /\ proc.status = "running" /\ proc.todo # <<>>
    /\ usersDir' = process_transcript(usersDir, proc.question_banks, Head(proc.todo))
    /\ proc' = [proc EXCEPT !.todo = Tail(@), !.last = <<Head(proc.todo)>>]
    /\ UNCHANGED <<blank_latents, neoStore, driver, commands>>

(* the loop is over: process_blank_latent, then the command returns *)
IngestEnd ==
    /\ proc.status = "running" /\ proc.todo = <<>>
    /\ blank_latents' = process_blank_latent(blank_latents, Len(proc.blank_latent_init),
                                           IF proc.blank_latent_init = <<>> THEN 0
                                           ELSE proc.blank_latent_init[1])
    /\ proc' = [proc EXCEPT !.status = "exited"]
    /\ UNCHANGED <<usersDir, neoStore, driver, commands>>

IngestNext ==
    \/ IngestStart
    \/ IngestTranscript
    \/ IngestEnd

IngestSpec == IngestInit /\ [][IngestNext]_vars

(* ---------------------- the functions on their own -------------------- *)
(* compute_latent_logits and the selection of gen_blank_latent.py are      *)
(* also run outside a command, one call in a behaviour: proc then holds    *)
(* the function called, its arguments and what it returned.                *)

(* lists of (question, divergence) of every length up to MaxList: the      *)
(* divergence of question i is (a * i + b) modulo m                        *)
DivLists ==
    UNION {{[i \in 1..L |-> <<i, (a * i + b) % m>>] :
               a \in 0..MaxDiv, b \in 0..MaxDiv, m \in {MaxDiv + 1, MaxList + 1}} :
           L \in 1..MaxList}

ShortLists == {l \in DivLists : Len(l) <= 2}

IdleCall == [fn |-> "none", args |-> <<>>, ret |-> <<>>]

CallInit ==
    /\ proc = IdleCall
    /\ blank_latents = EmptyMap
    /\ usersDir = {}
    /\ neoStore = EmptyMap
    /\ driver = IdleDriver
    /\ commands = 0

(* compute_latent_logits for a ground-truth answer of n tokens *)
CallEvaluate ==
    /\ proc = IdleCall
    /\ \E resp \in EvalOutcomes, n \in 0..(MaxTokens + 1) :
           proc' = [fn |-> "compute_latent_logits", args |-> <<resp, n>>,
                    ret |-> <<compute_latent_logits(resp, n, 1, 1)>>]
    /\ UNCHANGED <<blank_latents, usersDir, neoStore, driver, commands>>

(* the entries of users_data for one or two users, and the prompt built    *)
(* from them *)
CallCollect ==
    /\ proc = IdleCall
    /\ \E first \in DivLists, rest \in {<<>>} \cup {<<l>> : l \in ShortLists} :
           LET lists == <<first>> \o rest
               users_data == [i \in 1..Len(lists) |->
                                 users_data_entry(i, 1, lists[i])]
           IN  proc' = [fn |-> "construct_aggregated_prompt", args |-> lists,
                        ret |-> <<construct_aggregated_prompt(users_data, top_k)>>]
    /\ UNCHANGED <<blank_latents, usersDir, neoStore, driver, commands>>

(* the log-probabilities a call can be given: those of the service, one    *)
(* whose exponential is 0.0 and one whose exponential overflows            *)
CallLevels == LogProbLevels \cup {-ExpUnderflow, ExpOverflow}

(* convert_logprobs_to_probs, with the default epsilon or with 0.0 *)
CallConvert ==
    /\ proc = IdleCall
    /\ \E logprobs \in SeqsOver(CallLevels, MaxSeq), epsilon \in {0, EpsilonScaled} :
           proc' = [fn |-> "convert_logprobs_to_probs",
                    args |-> <<logprobs, epsilon>>,
                    ret |-> <<convert_logprobs_to_probs(logprobs, epsilon)>>]
    /\ UNCHANGED <<blank_latents, usersDir, neoStore, driver, commands>>

(* compute_kl_divergence_logprobs for two sequences of one length, as      *)
(* main calls it (line 285 lets no other pair through)                     *)
CallDivergence ==
    /\ proc = IdleCall
    /\ \E p_logp \in SeqsOver(CallLevels, MaxSeq) :
       \E q_logp \in [1..Len(p_logp) -> CallLevels] :
           proc' = [fn |-> "compute_kl_divergence_logprobs",
                    args |-> <<p_logp, q_logp>>,
                    ret |-> <<compute_kl_divergence_logprobs(p_logp, q_logp)>>]
    /\ UNCHANGED <<blank_latents, usersDir, neoStore, driver, commands>>

(* an echo response whose two lists of log-probabilities are empty *)
EmptyStream ==
    [raises |-> FALSE,
     choices_logprobs |-> <<[tokens |-> <<>>, token_logprobs |-> <<>>]>>,
     prompt_logprobs |-> <<EmptyPrompt>>]

(* an echo response of MaxTokens entries, one of them with a               *)
(* log-probability whose exponential cannot be computed                    *)
UnscorableStream ==
    [raises |-> FALSE,
     choices_logprobs |-> <<EndLogprobs>>,
     prompt_logprobs |->
         <<[tokens |-> [i \in 1..(MaxTokens - 1) |-> i],
            token_logprobs |-> [i \in 1..(MaxTokens - 1) |-> ExpOverflow]]>>]

CallOutcomes == EvalOutcomes \cup {EmptyStream, UnscorableStream}

(* a question as get_answers.py leaves it: no answer, an answer without    *)
(* tokens (the service gave no log-probabilities), an answer with tokens   *)
FreshQuestions(q) ==
    {[question |-> q, transcript |-> t, latents |-> EmptyMap] :
        t \in {<<>>, <<Transcript(0)>>, <<Transcript(MaxTokens)>>}}

(* main, lines 241-299, for one question: a first evaluation of a fresh    *)
(* question, or a further one of the question the first one left           *)
CallQuestion ==
    /\ \/ proc = IdleCall
       \/ proc.fn = "compute_main_question" /\ proc.args[1].latents = EmptyMap
    /\ \E question_data \in IF proc = IdleCall THEN FreshQuestions(1)
                              ELSE {proc.ret[1].qd} :
       \E blank_latent_id \in KeyArgs, resp \in CallOutcomes :
           proc' = [fn |-> "compute_main_question",
                    args |-> <<question_data, blank_latent_id, resp>>,
                    ret |-> <<compute_main_question(question_data, blank_latent_id,
                                                    resp, 1, 1)>>]
    /\ UNCHANGED <<blank_latents, usersDir, neoStore, driver, commands>>

(* main, lines 230-303, for one bank of CallQuestions fresh questions *)
CallAggregate ==
    /\ proc = IdleCall
    /\ \E questions \in [1..CallQuestions -> FreshQuestions(1)],
          resps \in [{1} -> [1..CallQuestions -> CallOutcomes]] :
           LET question_banks ==
                   [b \in {1} |->
                       [instructions |-> 1,
                        questions |-> [q \in 1..CallQuestions |->
                                          [questions[q] EXCEPT !.question = q]]]]
           IN  proc' = [fn |-> "compute_main_banks",
                        args |-> <<question_banks, resps>>,
                        ret |-> <<compute_main_banks(question_banks, SeedKey,
                                                     resps, 1)>>]
    /\ UNCHANGED <<blank_latents, usersDir, neoStore, driver, commands>>

CallNext ==
    \/ CallEvaluate
    \/ CallCollect
    \/ CallConvert
    \/ CallDivergence
    \/ CallQuestion
    \/ CallAggregate

CallSpec == CallInit /\ [][CallNext]_vars

(* ------------------------------- claims ------------------------------- *)
(* C1: when a user's record already holds an instantiation for the         *)
(* template version fill_latents.py runs for, no step of that run changes  *)
(* the entry or issues an oracle call for the user.                        *)
C1_SkipIfExists ==
    [][\A u \in DOMAIN neoStore :
          (/\ proc.stage = "fill" /\ proc.status = "running"
           /\ proc.argv[1] \in DOMAIN neoStore[u].filled_latent)
          => /\ u \in DOMAIN neoStore'
             /\ proc.argv[1] \in DOMAIN neoStore'[u].filled_latent
             /\ neoStore'[u].filled_latent[proc.argv[1]]
                    = neoStore[u].filled_latent[proc.argv[1]]
             /\ proc'.calls[u] = proc.calls[u]]_vars

(* a run has skipped a user whose entry an earlier run stored *)
C1_Skipped ==
    /\ proc.stage = "fill"
    /\ \E u \in DOMAIN neoStore :
          /\ Log("info", "already_exists", u, 0) \in proc.log
          /\ proc.argv[1] \in DOMAIN neoStore[u].filled_latent
          /\ neoStore[u].filled_latent[proc.argv[1]].wave_1 # <<>>
          /\ proc.calls[u] = 0

(* C2: an evaluation whose log-probability sequence differs in length from *)
(* the ground truth's is stored without a divergence; a run that logs the  *)
(* length-mismatch warning for a question has stored that evaluation       *)
(* without a divergence and has gone on past the user.                     *)
C2_NoDivergenceOnMismatch ==
    /\ \A u \in DOMAIN neoStore :
       \A b \in DOMAIN neoStore[u].question_banks :
       \A q \in DOMAIN neoStore[u].question_banks[b].questions :
          LET qd == neoStore[u].question_banks[b].questions[q] IN
          \A v \in DOMAIN qd.latents :
             (/\ qd.transcript # <<>>
              /\ Len(qd.latents[v].token_logprobs_answer)
                     # Len(qd.transcript[1].token_logprobs_transcript))
             => qd.latents[v].kl_divergence = <<>>
    /\ proc.stage = "compute" =>
       \A u \in Users : \A q \in QuestionIds :
          Log("warning", "length_mismatch", u, q) \in proc.log =>
             /\ \E i \in 1..Len(proc.visited) : proc.visited[i] = u
             /\ LET qd == neoStore[u].question_banks[1].questions[q] IN
                /\ proc.argv[1] \in DOMAIN qd.latents
                /\ Len(qd.latents[proc.argv[1]].token_logprobs_answer)
                       # Len(qd.transcript[1].token_logprobs_transcript)
                /\ qd.latents[proc.argv[1]].kl_divergence = <<>>

(* a run met a mismatch on its first user, stored the evaluation of one    *)
(* token or more without a divergence, and ended after the second user     *)
C2_MismatchStored ==
    /\ proc.stage = "compute" /\ proc.status = "exited" /\ proc.exit = 0
    /\ Len(proc.visited) = 2
    /\ \E q \in QuestionIds :
          LET u == proc.visited[1]
              qd == neoStore[u].question_banks[1].questions[q]
          IN  /\ Log("warning", "length_mismatch", u, q) \in proc.log
              /\ Len(qd.latents[proc.argv[1]].token_logprobs_answer) >= 1
              /\ qd.latents[proc.argv[1]].kl_divergence = <<>>

(* C3: a template of the registry never changes or disappears, and a run   *)
(* of gen_blank_latent.py that writes a template writes it under an id     *)
(* that the registry did not hold.                                         *)
C3_TemplateImmutable ==
    [][/\ \A k \in DOMAIN blank_latents :
             /\ k \in DOMAIN blank_latents'
             /\ blank_latents'[k] = blank_latents[k]
       /\ (proc'.written # proc.written /\ proc'.written # <<>>)
             => proc'.written[1] \notin DOMAIN blank_latents]_vars

(* C4: when a user holds divergences for the current template version and  *)
(* the synthesizer's oracle gives a template, gen_blank_latent.py writes   *)
(* exactly one template, under the current version plus one, whichever     *)
(* user its loop handled last.                                             *)
C4_VersionAdvancesByOne ==
    [][LET current == get_max_blank_latent_key_dir(blank_latents)
           next == ZFill(Str(ParseInt(current) + 1), KeyWidth)
           usable == \E u \in usersDir \cap DOMAIN neoStore :
                        /\ current \in DOMAIN neoStore[u].filled_latent
                        /\ kl_divergences_of(neoStore[u].question_banks, current)
                               # <<>>
       IN  (/\ proc.stage = "gen" /\ proc.status = "running"
            /\ proc'.status = "exited"
            /\ usable
            /\ Log("error", "no_new_template", 0, 0) \notin proc'.log)
           => /\ proc'.written = <<next>>
              /\ DOMAIN blank_latents' = DOMAIN blank_latents \cup {next}
              /\ next \notin DOMAIN blank_latents
              /\ \A k \in DOMAIN blank_latents :
                    blank_latents'[k] = blank_latents[k]]_vars

(* C5: a run of gen_blank_latent.py that finds no user with divergence     *)
(* data writes no template and ends with a failure status, on which the    *)
(* driver halts.                                                           *)
C5_ZeroContributorsFatal ==
    (/\ proc.stage = "gen" /\ proc.status = "exited"
     /\ Log("error", "no_valid_user_data", 0, 0) \in proc.log)
    => /\ proc.written = <<>>
       /\ proc.exit # 0
       /\ driver_after([IdleDriver EXCEPT !.pc = "gen", !.iteration = 1],
                       proc.exit).pc = "halted"

(* C6: a run of gen_blank_latent.py whose oracle call raises writes no     *)
(* template and ends with a failure status, on which the driver aborts     *)
(* the round.                                                              *)
C6_SynthesisFailureFatal ==
    (/\ proc.stage = "gen" /\ proc.status = "exited"
     /\ Log("error", "gen_failed", 0, 0) \in proc.log)
    => /\ proc.written = <<>>
       /\ proc.gen_calls = 1
       /\ proc.exit # 0
       /\ driver_after([IdleDriver EXCEPT !.pc = "gen", !.iteration = 1],
                       proc.exit).pc = "halted"

(* C7: a run of fill_latents.py or compute_latent_logits.py for a version   *)
(* of the registry that entered its loop over the users handles every      *)
(* listed user and ends with status 0 and without an uncaught exception,   *)
(* whatever the oracle does and whichever users lack an instantiation for  *)
(* the version (for fill_latents.py: given a known prompt type and         *)
(* questionnaire records with their 'questions' block).                    *)
C7_IndividualFailureContained ==
    (/\ proc.stage \in {"fill", "compute"} /\ proc.status = "exited"
     /\ (proc.visited # <<>> \/ proc.todo # <<>>)
     /\ proc.argv[1] \in DOMAIN blank_latents
     /\ proc.stage = "fill" =>
           /\ proc.argv[2] \in {"rubric", "psychologist"}
           /\ \A u \in DOMAIN neoStore : neoStore[u].questions)
    => /\ proc.exit = 0
       /\ ~proc.fault
       /\ proc.todo = <<>>

(* C8: every user gen_blank_latent.py collects for the synthesis holds an  *)
(* instantiation for the current template version, and the questions       *)
(* collected for the user are those with a divergence for that version.    *)
C8_OnlyCurrentVersionContributes ==
    (proc.stage = "gen" /\ proc.status = "running") =>
       LET current == get_max_blank_latent_key_dir(blank_latents) IN
       \A i \in 1..Len(proc.users_data) :
          LET u == proc.users_data[i].user
              sorted == SortDesc(kl_divergences_of(neoStore[u].question_banks,
                                                   current))
          IN  /\ current \in DOMAIN neoStore[u].filled_latent
              /\ proc.users_data[i].top_k_questions = FirstN(sorted, top_k)
              /\ proc.users_data[i].bottom_k_questions = LastN(sorted, bottom_k)

(* C9: when the oracle's answer to fill_latents.py carries no              *)
(* log-probabilities, no instantiation is stored for the user and the run  *)
(* goes on.                                                                *)
C9_NoLogprobsNothingStored ==
    proc.stage = "fill" =>
       \A u \in DOMAIN neoStore :
          Log("warning", "no_logprobs", u, 0) \in proc.log =>
             /\ proc.argv[1] \notin DOMAIN neoStore[u].filled_latent
             /\ \E i \in 1..Len(proc.visited) : proc.visited[i] = u

(* C10: a run of fill_latents.py issues at most one oracle call per user;  *)
(* the step in which the call for a user raises is that user's one call,   *)
(* leaves every stored record unchanged and moves on to the next user.     *)
C10_NoRetryOnException ==
    /\ [](proc.stage = "fill" => \A u \in Users : proc.calls[u] <= 1)
    /\ [][\A u \in Users :
             (/\ Log("error", "fill_latent_failed", u, 0) \in proc'.log
              /\ Log("error", "fill_latent_failed", u, 0) \notin proc.log)
             => /\ proc.calls[u] = 0
                /\ proc'.calls[u] = 1
                /\ neoStore' = neoStore
                /\ proc'.status = "running"
                /\ Head(proc.todo) = u
                /\ proc'.todo = Tail(proc.todo)]_vars

(* the call for the first user raised, the run went on to the second user  *)
(* and ended, and the first user still has no entry                        *)
C10_RaisedOnce ==
    /\ proc.stage = "fill" /\ proc.status = "exited" /\ proc.exit = 0
    /\ Len(proc.visited) = 2
    /\ LET u == proc.visited[1] IN
       /\ Log("error", "fill_latent_failed", u, 0) \in proc.log
       /\ proc.calls[u] = 1
       /\ proc.argv[1] \notin DOMAIN neoStore[u].filled_latent

(* C11: once compute_latent_logits.py, run for a version, is past a user   *)
(* for whom fill_latents.py stored a non-empty filled text under that      *)
(* version, the text it read for the user is the stored text, and every    *)
(* question of the user with a ground-truth answer whose evaluation call   *)
(* returned log-probabilities has an evaluation under the version.         *)
C11_StoredTextIsEvaluated ==
    (proc.stage = "compute" /\ Len(proc.argv) = 1) =>
       \A i \in 1..Len(proc.visited) :
          LET u == proc.visited[i]
              v == proc.argv[1]
              failed(q) == \E what \in {"compute_logprobs_failed",
                                        "no_end_token", "no_logprobs"} :
                              \E level \in {"error", "warning"} :
                                 Log(level, what, u, q) \in proc.log
          IN  (/\ u \in DOMAIN neoStore
               /\ v \in DOMAIN neoStore[u].filled_latent
               /\ neoStore[u].filled_latent[v].wave_1 # <<>>
               /\ neoStore[u].filled_latent[v].wave_1[1].full_response # 0)
              => /\ neoStore[u].filled_latent[v].full_text
                       = neoStore[u].filled_latent[v].wave_1[1].full_response
                 /\ \A q \in DOMAIN neoStore[u].question_banks[1].questions :
                       LET qd == neoStore[u].question_banks[1].questions[q] IN
                       (/\ qd.transcript # <<>>
                        /\ qd.transcript[1].response # 0
                        /\ ~failed(q))
                       => v \in DOMAIN qd.latents

(* C12: when a stage command the driver waits for ends with a non-zero     *)
(* status, the driver halts with a non-zero status of its own, whichever   *)
(* stage it was; a halted driver stays halted and starts no stage, until   *)
(* the driver command is started anew.                                     *)
C12_DriverHaltsOnFailure ==
    /\ [](\A pc \in {"fill", "compute", "gen"} :
             LET d == driver_after([IdleDriver EXCEPT !.pc = pc,
                                                      !.iteration = 1], 1)
             IN  d.pc = "halted" /\ d.exit # 0)
    /\ [][(/\ driver.waiting /\ proc.status = "exited" /\ proc.exit # 0
           /\ driver' # driver)
          => /\ driver'.pc = "halted"
             /\ driver'.exit # 0
             /\ ~driver'.waiting]_vars
    /\ [][(driver.pc = "halted" /\ commands' = commands)
          => /\ driver' = driver
             /\ proc'.caller = "driver" => proc' = proc]_vars

(* the driver has halted on the failure of a stage of its first round *)
C12_Halted ==
    /\ driver.pc = "halted" /\ driver.exit = 1 /\ driver.iteration = 1
    /\ proc.caller = "driver" /\ proc.status = "exited" /\ proc.exit # 0

(* C13: with a seeded registry and users to instantiate, the driver halts  *)
(* in a round only when a stage reported a failure of the service, and     *)
(* when it is done it has run num_iterations rounds, exits with status 0   *)
(* and the registry holds num_iterations templates beside the seed.        *)
C13_DriverCompletesRounds ==
    /\ (/\ driver.pc = "halted" /\ driver.iteration >= 1
        /\ proc.caller = "driver"
        /\ SeedKey \in DOMAIN blank_latents
        /\ DOMAIN neoStore # {})
       => \E l \in proc.log :
             l[2] \in {"api_unavailable", "client_init_failed",
                       "fill_latent_failed", "no_logprobs",
                       "compute_logprobs_failed", "no_end_token", "gen_failed"}
    /\ driver.pc = "done"
       => /\ driver.iteration = num_iterations
          /\ driver.exit = 0
          /\ Cardinality(DOMAIN blank_latents) >= num_iterations + 1

(* C14: while the registry holds no template 000, a run of fill_latents.py *)
(* exits with status 1 before it handles a user; the driver, reaping its   *)
(* Instantiate command, halts in its first round with status 1; and no     *)
(* step of the driver's run changes the registry or a user's record.       *)
C14_NoSeedHaltsFirstRound ==
    /\ []((proc.stage = "fill" /\ SeedKey \notin DOMAIN blank_latents)
          => /\ proc.status = "exited" /\ proc.exit = 1
             /\ proc.visited = <<>>
             /\ \A u \in Users : proc.calls[u] = 0)
    /\ [][(/\ SeedKey \notin DOMAIN blank_latents
           /\ driver.pc = "fill" /\ driver.waiting /\ driver' # driver)
          => /\ driver.iteration = 1
             /\ driver'.pc = "halted"
             /\ driver'.exit = 1]_vars
    /\ [][(/\ SeedKey \notin DOMAIN blank_latents
           /\ driver.pc \in {"fill", "compute", "gen"})
          => /\ blank_latents' = blank_latents
             /\ neoStore' = neoStore]_vars

(* the driver, started on an empty registry, has halted in round 1 *)
C14_HaltedUnseeded ==
    /\ DOMAIN blank_latents = {}
    /\ driver.pc = "halted" /\ driver.exit = 1 /\ driver.iteration = 1
    /\ proc.caller = "driver" /\ proc.stage = "fill" /\ proc.exit = 1

(* C15: the registry changes only in the last step of a running            *)
(* gen_blank_latent.py (or when the seed is written by a new command), so  *)
(* after every user was handled and with no other writer, and a run of     *)
(* gen_blank_latent.py that ends with status 0, on which the driver        *)
(* counts the round as done, has written one template.                     *)
C15_RegistryWrittenOncePerRound ==
    /\ [][blank_latents' # blank_latents
          => \/ commands' # commands
             \/ /\ proc.stage = "gen" /\ proc.status = "running"
                /\ proc.todo = <<>> /\ proc.written = <<>>
                /\ proc'.status = "exited"]_vars
    /\ []((proc.stage = "gen" /\ proc.status = "exited" /\ proc.exit = 0)
          => proc.written # <<>>)

(* C17: when the echo response lacks the log-probabilities of the end      *)
(* token or of the echoed prompt, compute_latent_logits.py logs warnings   *)
(* only, leaves the question as stored, and goes on to the next user.      *)
C17_NoLogProbsSkipsQuestion ==
    [][\A u \in Users : \A q \in QuestionIds :
          (/\ proc.stage = "compute" /\ proc.status = "running"
           /\ proc.todo # <<>> /\ Head(proc.todo) = u
           /\ \/ Log("warning", "no_end_token", u, q) \in proc'.log
              \/ Log("warning", "no_logprobs", u, q) \in proc'.log)
          => /\ Log("warning", "no_logprobs_computed", u, q) \in proc'.log
             /\ \A l \in proc'.log : (l[3] = u /\ l[4] = q) => l[1] = "warning"
             /\ neoStore'[u].question_banks[1].questions[q]
                    = neoStore[u].question_banks[1].questions[q]
             /\ proc'.status = "running" /\ ~proc'.fault
             /\ proc'.todo = Tail(proc.todo)]_vars

(* the echoed prompt of the first user's question lacked the               *)
(* log-probabilities, the question holds no evaluation, and the run ended  *)
(* after the second user                                                   *)
C17_Skipped ==
    /\ proc.stage = "compute" /\ proc.status = "exited" /\ proc.exit = 0
    /\ Len(proc.visited) = 2
    /\ \E q \in QuestionIds :
          LET u == proc.visited[1] IN
          /\ Log("warning", "no_logprobs", u, q) \in proc.log
          /\ proc.calls[u] = 1
          /\ proc.argv[1] \notin
                 DOMAIN neoStore[u].question_banks[1].questions[q].latents

(* C20: a user without any recorded divergence has no entry in the         *)
(* users_data gen_blank_latent.py collects nor a block in the aggregated   *)
(* prompt, and every entry collected lists at least one question.          *)
C20_NoDivergenceOmitted ==
    proc.stage = "gen" =>
       /\ \A u \in Users :
             (\/ u \notin DOMAIN neoStore
              \/ \A q \in DOMAIN neoStore[u].question_banks[1].questions :
                    LET qd == neoStore[u].question_banks[1].questions[q] IN
                    \A v \in DOMAIN qd.latents : qd.latents[v].kl_divergence = <<>>)
             => /\ \A i \in 1..Len(proc.users_data) : proc.users_data[i].user # u
                /\ \A i \in 1..Len(proc.prompt) : proc.prompt[i].user # u
       /\ \A i \in 1..Len(proc.users_data) :
             /\ proc.users_data[i].top_k_questions # <<>>
             /\ proc.users_data[i].bottom_k_questions # <<>>

(* a template was written from one user's data while the other user,       *)
(* skipped for lack of divergences, is absent from the prompt              *)
C20_Omitted ==
    /\ proc.stage = "gen" /\ proc.written # <<>>
    /\ Len(proc.prompt) = 1
    /\ \E u \in Users :
          /\ Log("warning", "no_kl_data", u, 0) \in proc.log
          /\ proc.prompt[1].user # u

(* C16: a call of compute_latent_logits that gets both sets of             *)
(* log-probabilities, for an answer of n tokens and a stream (echoed       *)
(* prompt, then end token) of M >= n entries, returns the last n tokens    *)
(* and the last n log-probabilities of the stream, n = 0 included.         *)
C16_TrimsToLastN ==
    proc.fn = "compute_latent_logits" =>
       LET resp == proc.args[1]
           n == proc.args[2]
           r == proc.ret[1]
       IN  (/\ ~resp.raises
            /\ resp.choices_logprobs # <<>>
            /\ resp.prompt_logprobs # <<>>)
           => LET stream == resp.prompt_logprobs[1].tokens
                                \o resp.choices_logprobs[1].tokens
                  stream_lp == resp.prompt_logprobs[1].token_logprobs
                                \o resp.choices_logprobs[1].token_logprobs
                  M == Len(stream)
              IN  M >= n =>
                     /\ r.ret # <<>>
                     /\ r.ret[1].tokens = SubSeq(stream, M - n + 1, M)
                     /\ r.ret[1].token_logprobs = SubSeq(stream_lp, M - n + 1, M)

(* C18, as stated: for a user's list of L divergences, the poorly and the  *)
(* best predicted questions are disjoint when L >= 2k, and when L < 2k     *)
(* they share exactly 2k - L questions and each holds min(k, L).           *)
C18_OverlapAsStated ==
    proc.fn = "construct_aggregated_prompt" =>
       \A i \in 1..Len(proc.args) :
          LET L == Len(proc.args[i])
              block == proc.ret[1][i]
              poorly == {block.poorly[j] : j \in 1..Len(block.poorly)}
              best == {block.best[j] : j \in 1..Len(block.best)}
              min_k_L == IF top_k < L THEN top_k ELSE L
          IN  /\ L >= 2 * top_k => poorly \cap best = {}
              /\ L < 2 * top_k =>
                    /\ Cardinality(poorly \cap best) = 2 * top_k - L
                    /\ Cardinality(poorly) = min_k_L
                    /\ Cardinality(best) = min_k_L

(* C18, amended: each of the two sets holds min(k, L) questions; they are  *)
(* disjoint when L >= 2k, share 2k - L questions when k <= L < 2k, and     *)
(* are both the whole list (L shared questions) when L < k.                *)
C18_Overlap ==
    proc.fn = "construct_aggregated_prompt" =>
       \A i \in 1..Len(proc.args) :
          LET L == Len(proc.args[i])
              block == proc.ret[1][i]
              poorly == {block.poorly[j] : j \in 1..Len(block.poorly)}
              best == {block.best[j] : j \in 1..Len(block.best)}
              min_k_L == IF top_k < L THEN top_k ELSE L
          IN  /\ Len(block.poorly) = min_k_L /\ Cardinality(poorly) = min_k_L
              /\ Len(block.best) = min_k_L /\ Cardinality(best) = min_k_L
              /\ L >= 2 * top_k => poorly \cap best = {}
              /\ (top_k <= L /\ L < 2 * top_k)
                    => Cardinality(poorly \cap best) = 2 * top_k - L
              /\ L < top_k => Cardinality(poorly \cap best) = L

(* a list of 2k - 2 questions: the two sets of k share two questions *)
C18_OverlapOfTwo ==
    /\ proc.fn = "construct_aggregated_prompt"
    /\ Len(proc.args[1]) = 2 * top_k - 2
    /\ LET block == proc.ret[1][1] IN
       /\ Len(block.poorly) = top_k /\ Len(block.best) = bottom_k
       /\ Cardinality({block.poorly[j] : j \in 1..Len(block.poorly)}
                      \cap {block.best[j] : j \in 1..Len(block.best)}) = 2

(* C19, as stated: in the poorly predicted questions of the aggregated     *)
(* prompt, read from the top, a question never comes after one with a      *)
(* strictly smaller divergence, whichever users the two belong to.         *)
C19_RankedAcrossUsers ==
    proc.fn = "construct_aggregated_prompt" =>
       LET prompt == proc.ret[1] IN
       \A i \in 1..Len(prompt) : \A j \in i..Len(prompt) :
       \A a \in 1..Len(prompt[i].poorly) : \A b \in 1..Len(prompt[j].poorly) :
          (i < j \/ a < b) => prompt[i].poorly[a][2] >= prompt[j].poorly[b][2]

(* C19, amended: within each user's block the poorly predicted questions   *)
(* are in descending order of divergence and are the min(k, L) questions   *)
(* of the user of highest divergence, the best predicted ones the          *)
(* min(k, L) of lowest divergence; all are questions of that user.         *)
C19_RankedPerUser ==
    proc.fn = "construct_aggregated_prompt" =>
       \A i \in 1..Len(proc.args) :
          LET all == {proc.args[i][j] : j \in 1..Len(proc.args[i])}
              block == proc.ret[1][i]
              poorly == {block.poorly[j] : j \in 1..Len(block.poorly)}
              best == {block.best[j] : j \in 1..Len(block.best)}
          IN  /\ poorly \subseteq all /\ best \subseteq all
              /\ \A a \in 1..Len(block.poorly) : \A b \in a..Len(block.poorly) :
                    block.poorly[a][2] >= block.poorly[b][2]
              /\ \A a \in 1..Len(block.best) : \A b \in a..Len(block.best) :
                    block.best[a][2] >= block.best[b][2]
              /\ \A x \in poorly : \A y \in all \ poorly : x[2] >= y[2]
              /\ \A x \in best : \A y \in all \ best : x[2] <= y[2]

(* a list longer than k given in ascending order of divergence: the        *)
(* question given last is the first of the poorly predicted ones           *)
C19_LastRankedFirst ==
    /\ proc.fn = "construct_aggregated_prompt"
    /\ LET l == proc.args[1] IN
       /\ Len(l) > top_k
       /\ \A j \in 1..(Len(l) - 1) : l[j][2] < l[j + 1][2]
       /\ proc.ret[1][1].poorly[1] = l[Len(l)]

(* C21: a run of gen_blank_latent.py that has collected no user when its   *)
(* loop ends issues no oracle call, writes nothing to the registry and     *)
(* exits; and a run that has written a template collected at least one     *)
(* user, every collected user holding a divergence in its stored record.   *)
C21_NoTemplateFromNoContributors ==
    /\ [][(/\ proc.stage = "gen" /\ proc.status = "running"
           /\ proc.todo = <<>> /\ proc.users_data = <<>>)
          => /\ blank_latents' = blank_latents
             /\ proc'.gen_calls = 0
             /\ proc'.written = <<>>
             /\ proc'.status = "exited"]_vars
    /\ []((proc.stage = "gen" /\ proc.written # <<>>)
          => /\ proc.users_data # <<>>
             /\ \A i \in 1..Len(proc.users_data) :
                   LET u == proc.users_data[i].user IN
                   \E q \in DOMAIN neoStore[u].question_banks[1].questions :
                      LET qd == neoStore[u].question_banks[1].questions[q] IN
                      \E v \in DOMAIN qd.latents : qd.latents[v].kl_divergence # <<>>)

(* a run went through both users, one of them instantiated, collected      *)
(* neither, and ended without a call and with the registry as it was       *)
C21_NothingPublished ==
    /\ proc.stage = "gen" /\ proc.status = "exited"
    /\ Len(proc.visited) = NumUsers
    /\ Log("error", "no_valid_user_data", 0, 0) \in proc.log
    /\ \E u \in Users : Log("warning", "no_kl_data", u, 0) \in proc.log
    /\ proc.gen_calls = 0 /\ proc.written = <<>>
    /\ DOMAIN blank_latents = {SeedKey}

(* C22: convert_logprobs_to_probs returns None for the empty list and     *)
(* whenever every exponential is 0.0 and epsilon is 0.0, and a             *)
(* distribution for every other list of values whose exponentials are      *)
(* finite; compute_kl_divergence_logprobs returns None when either         *)
(* conversion does; and main, for a question whose two lists are empty,    *)
(* stores the evaluation with its tokens and log-probabilities and no      *)
(* divergence, logs a warning, and evaluates the other questions of the    *)
(* bank as usual.                                                          *)
C22_DegenerateSkipsDivergence ==
    /\ proc.fn = "convert_logprobs_to_probs" =>
          LET logprobs == proc.args[1]
              epsilon == proc.args[2]
              zero_sum == \A i \in 1..Len(logprobs) :
                             logprobs[i] <= -ExpUnderflow /\ epsilon = 0
          IN  /\ logprobs = <<>> => proc.ret[1] = <<>>
              /\ zero_sum => proc.ret[1] = <<>>
              /\ (\A i \in 1..Len(logprobs) : logprobs[i] < ExpOverflow)
                    => (proc.ret[1] = <<>> <=> zero_sum)
    /\ proc.fn = "compute_kl_divergence_logprobs" =>
          ((\/ convert_logprobs_to_probs(proc.args[1], EpsilonScaled) = <<>>
            \/ convert_logprobs_to_probs(proc.args[2], EpsilonScaled) = <<>>)
           <=> proc.ret[1] = <<>>)
    /\ proc.fn = "compute_main_banks" =>
          LET before == proc.args[1][1].questions
              resps == proc.args[2][1]
              after == proc.ret[1].banks[1].questions
          IN  \A q \in DOMAIN before :
                 /\ (before[q].transcript = <<Transcript(0)>> /\ resps[q] = EmptyStream)
                       => /\ SeedKey \in DOMAIN after[q].latents
                          /\ after[q].latents[SeedKey]
                                 = [tokens |-> <<>>, token_logprobs_answer |-> <<>>,
                                    kl_divergence |-> <<>>]
                          /\ after[q].transcript = before[q].transcript
                          /\ Log("warning", "kl_not_computed", 1, q) \in proc.ret[1].log
                          /\ \A l \in proc.ret[1].log : l[4] = q => l[1] = "warning"
                 /\ (/\ before[q].transcript = <<Transcript(MaxTokens)>>
                     /\ resps[q] \in EvalOutcomes
                     /\ ~resps[q].raises
                     /\ resps[q].choices_logprobs = <<EndLogprobs>>
                     /\ resps[q].prompt_logprobs # <<>>
                     /\ Len(resps[q].prompt_logprobs[1].tokens) + 1 >= MaxTokens)
                       => /\ SeedKey \in DOMAIN after[q].latents
                          /\ after[q].latents[SeedKey].kl_divergence # <<>>

(* the divergence of the first question could not be computed, and the     *)
(* second question has its evaluation with a divergence                    *)
C22_SkippedThenEvaluated ==
    /\ proc.fn = "compute_main_banks"
    /\ Log("warning", "kl_not_computed", 1, 1) \in proc.ret[1].log
    /\ LET after == proc.ret[1].banks[1].questions IN
       /\ after[1].latents[SeedKey].kl_divergence = <<>>
       /\ SeedKey \in DOMAIN after[2].latents
       /\ after[2].latents[SeedKey].kl_divergence # <<>>
       /\ Len(after[2].latents[SeedKey].tokens) = MaxTokens

C29_RerunReplacesEntry ==
    proc.fn = "compute_main_question" =>
       LET question_data == proc.args[1]
           v == proc.args[2]
           resp == proc.args[3]
           r == proc.ret[1]
           answered == /\ question_data.transcript # <<>>
                       /\ question_data.transcript[1].response # 0
           no_result == \/ resp.raises
                        \/ resp.choices_logprobs = <<>>
                        \/ resp.prompt_logprobs = <<>>
       IN  /\ answered => r.calls = 1
           /\ (answered /\ no_result) => r.qd = question_data
           /\ (answered /\ ~no_result) =>
                 LET truth == question_data.transcript[1]
                     stream == resp.prompt_logprobs[1].token_logprobs
                                  \o resp.choices_logprobs[1].token_logprobs
                     entry == r.qd.latents[v]
                 IN  /\ v \in DOMAIN r.qd.latents
                     /\ entry.token_logprobs_answer
                            = LastN(stream, Len(truth.tokens))
                     /\ Len(entry.token_logprobs_answer)
                            # Len(truth.token_logprobs_transcript)
                           => entry.kl_divergence = <<>>
                     /\ (\/ entry.token_logprobs_answer = <<>>
                         \/ \E i \in 1..Len(entry.token_logprobs_answer) :
                               entry.token_logprobs_answer[i] >= ExpOverflow)
                           => entry.kl_divergence = <<>>

(* a second evaluation for the version met a length mismatch: the          *)
(* divergence the first evaluation had recorded is gone                    *)
C29_DivergenceDropped ==
    /\ proc.fn = "compute_main_question"
    /\ LET question_data == proc.args[1]
           v == proc.args[2]
           r == proc.ret[1]
       IN  /\ v \in DOMAIN question_data.latents
           /\ question_data.latents[v].kl_divergence # <<>>
           /\ r.calls = 1
           /\ r.qd.latents[v].kl_divergence = <<>>
           /\ Log("warning", "length_mismatch", 1, 1) \in r.log

(* C26: a step changes the stored record of a user only when it is the     *)
(* iteration of a running fill_latents.py or compute_latent_logits.py for  *)
(* that user; the record of every other user is left as it is, whether     *)
(* the iteration stores, skips or fails, and no record appears or goes.    *)
C26_RecordOwnedByUser ==
    [][/\ DOMAIN neoStore' = DOMAIN neoStore
       /\ \A u \in DOMAIN neoStore :
             neoStore'[u] # neoStore[u]
             => /\ proc.status = "running"
                /\ proc.stage \in {"fill", "compute"}
                /\ proc.todo # <<>>
                /\ Head(proc.todo) = u]_vars

(* a run stored the filled text of its first user; the call for its        *)
(* second user raised, and that user's record holds no instantiation       *)
C26_OtherUntouched ==
    /\ proc.stage = "fill" /\ proc.status = "exited" /\ proc.exit = 0
    /\ Len(proc.visited) = 2
    /\ LET a == proc.visited[1]
           b == proc.visited[2]
       IN  /\ Log("info", "saved", a, 0) \in proc.log
           /\ proc.argv[1] \in DOMAIN neoStore[a].filled_latent
           /\ Log("error", "fill_latent_failed", b, 0) \in proc.log
           /\ neoStore[b].filled_latent = EmptyMap

(* C27: an iteration of compute_latent_logits.py run for a version leaves, *)
(* in every question, the question text, the ground-truth answer and the   *)
(* evaluations of every other version as they are, and adds no entry but   *)
(* the one of its version; it leaves the instantiations alone.             *)
C27_OnlyOwnVersionEntry ==
    [][(proc.stage = "compute" /\ proc.status = "running" /\ proc.todo # <<>>)
       => \A u \in DOMAIN neoStore :
             /\ u \in DOMAIN neoStore'
             /\ neoStore'[u].filled_latent = neoStore[u].filled_latent
             /\ DOMAIN neoStore'[u].question_banks
                    = DOMAIN neoStore[u].question_banks
             /\ \A b \in DOMAIN neoStore[u].question_banks :
                   LET old_bank == neoStore[u].question_banks[b]
                       new_bank == neoStore'[u].question_banks[b]
                   IN  /\ new_bank.instructions = old_bank.instructions
                       /\ DOMAIN new_bank.questions = DOMAIN old_bank.questions
                       /\ \A q \in DOMAIN old_bank.questions :
                             LET old == old_bank.questions[q]
                                 new == new_bank.questions[q]
                                 v == proc.argv[1]
                             IN  /\ new.question = old.question
                                 /\ new.transcript = old.transcript
                                 /\ DOMAIN old.latents \subseteq DOMAIN new.latents
                                 /\ DOMAIN new.latents
                                        \subseteq DOMAIN old.latents \cup {v}
                                 /\ \A w \in DOMAIN old.latents \ {v} :
                                       new.latents[w] = old.latents[w]]_vars

(* a run for version 001 has stored an evaluation in a question that       *)
(* still holds the evaluation of version 000 with its divergence           *)
C27_SecondVersionAdded ==
    /\ proc.stage = "compute" /\ proc.argv = <<ZFill(<<1>>, KeyWidth)>>
    /\ \E u \in DOMAIN neoStore : \E q \in QuestionIds :
          LET qd == neoStore[u].question_banks[1].questions[q] IN
          /\ Log("info", "kl_computed", u, q) \in proc.log
          /\ DOMAIN qd.latents = {SeedKey, ZFill(<<1>>, KeyWidth)}
          /\ qd.latents[SeedKey].kl_divergence # <<>>

(* C25: no step of get_answers.py, fill_latents.py,                        *)
(* compute_latent_logits.py, gen_blank_latent.py, the seeding or the       *)
(* driver changes or removes a stored ground-truth answer whose text is    *)
(* not empty: the text, its tokens and its log-probabilities stay.         *)
C25_GroundTruthWrittenOnce ==
    [][\A u \in DOMAIN neoStore :
       \A b \in DOMAIN neoStore[u].question_banks :
       \A q \in DOMAIN neoStore[u].question_banks[b].questions :
          LET transcript == neoStore[u].question_banks[b].questions[q].transcript
          IN  (transcript # <<>> /\ transcript[1].response # 0)
              => /\ u \in DOMAIN neoStore'
                 /\ b \in DOMAIN neoStore'[u].question_banks
                 /\ q \in DOMAIN neoStore'[u].question_banks[b].questions
                 /\ neoStore'[u].question_banks[b].questions[q].transcript
                        = transcript]_vars

(* get_answers.py recorded an answer with its tokens; a later run of it    *)
(* found the answer and made no call for the user                          *)
C25_AnswerFoundAgain ==
    /\ proc.stage = "answers" /\ commands = 2
    /\ \E u \in DOMAIN neoStore : \E q \in QuestionIds :
          LET transcript == neoStore[u].question_banks[1].questions[q].transcript
          IN  /\ Log("info", "transcript_exists", u, q) \in proc.log
              /\ proc.calls[u] = 0
              /\ transcript # <<>>
              /\ transcript[1].tokens = SomeLogprobs.tokens
              /\ transcript[1].token_logprobs_transcript
                     = SomeLogprobs.token_logprobs

(* C28: when compute_latent_logits.py and get_answers.py, run at the      *)
(* same time on one user, have both ended, the user's file holds every     *)
(* change either made to its copy: the answer get_answers.py recorded      *)
(* and the evaluation compute_latent_logits.py stored.                     *)
C28_NoLostUpdate ==
    (\A c \in Commands : proc[c].pc = "done") =>
       \A c \in Commands :
          proc[c].user_data # <<>> =>
             LET u == proc[c].user
                 was == proc[c].loaded[1].question_banks[1].questions
                 mine == proc[c].user_data[1].question_banks[1].questions
             IN  /\ u \in DOMAIN neoStore
                 /\ \A q \in DOMAIN mine :
                       LET now == neoStore[u].question_banks[1].questions[q] IN
                       /\ mine[q].transcript # was[q].transcript
                             => now.transcript = mine[q].transcript
                       /\ \A v \in DOMAIN mine[q].latents :
                             (\/ v \notin DOMAIN was[q].latents
                              \/ was[q].latents[v] # mine[q].latents[v])
                             => /\ v \in DOMAIN now.latents
                                /\ now.latents[v] = mine[q].latents[v]

(* C30: a turn of process_transcripts on a user who has a record never     *)
(* removes a transcript, never appends one that is present and never       *)
(* changes a question the record holds; of a bank the record holds it      *)
(* changes the instructions alone, apart from adding questions the record  *)
(* lacks.  In a second run over the same transcripts and question banks    *)
(* no turn changes any record.                                             *)
C30_IngestionIdempotent ==
    [][IngestTranscript =>
         /\ \A u \in DOMAIN usersDir :
               /\ u \in DOMAIN usersDir'
               /\ LET was == usersDir[u]
                      now == usersDir'[u]
                      content == Head(proc.todo).content
                  IN  /\ SubSeq(now.transcripts, 1, Len(was.transcripts)) = was.transcripts
                      /\ (\E i \in 1..Len(was.transcripts) : was.transcripts[i] = content)
                            => now.transcripts = was.transcripts
                      /\ \A b \in DOMAIN was.question_banks :
                            /\ b \in DOMAIN now.question_banks
                            /\ \A q \in DOMAIN was.question_banks[b].questions :
                                  /\ q \in DOMAIN now.question_banks[b].questions
                                  /\ now.question_banks[b].questions[q]
                                        = was.question_banks[b].questions[q]
         /\ commands >= 2 => usersDir' = usersDir]_vars

(* a second run has passed the record of a user that held an answer and    *)
(* an evaluation, with a transcript the record already had                 *)
C30_SecondRunOnWorkedRecord ==
    /\ commands >= 2
    /\ proc.last # <<>>
    /\ proc.last[1].user_id # <<>>
    /\ LET u == proc.last[1].user_id[1] IN
          /\ u \in DOMAIN usersDir
          /\ usersDir[u].question_banks = [WorkedBank EXCEPT ![1].instructions = 2]
          /\ \E i \in 1..Len(usersDir[u].transcripts) :
                usersDir[u].transcripts[i] = proc.last[1].content

====
